---- MODULE Spec2Model ----
(***************************************************************************)
(* Challenge lifecycle and integrity core of the CAPTCHA service:          *)
(* the in-memory session store (sessions.py), the time-windowed signer     *)
(* (security.py), the oracle adapter (gemini_client.py) and the two agents *)
(* (agents.py).                                                            *)
(*                                                                         *)
(* Conventions.  A Python str is a sequence of symbols (one-character      *)
(* strings, or whole tokens where the code never looks inside them).       *)
(* A Python dict is a record / function with a string domain; None is the  *)
(* record None.  time.time() is the integer variable now; one handler run  *)
(* reads the clock at a single instant.                                    *)
(***************************************************************************)
EXTENDS Integers, Sequences, FiniteSets, TLC

VARIABLES
    now,            \* time.time()
    sessions,       \* InMemorySession.sessions : sid -> session dict
    last_cleanup,   \* InMemorySession.last_cleanup
    remote,         \* GEMINI_API_ENDPOINT and GEMINI_API_KEY are both set
    last,           \* history: the last request served, its result and oracle calls
    hist,           \* history: per session, the judged submits against its challenge
    probe           \* state of the signer exercise (SpecSig); idle under Spec

vars == <<now, sessions, last_cleanup, remote, last, hist, probe>>

(***************************************************************************)
(* Program constants                                                       *)
(***************************************************************************)
WINDOW_SECONDS == 300
SESSION_TTL == 3600
CLEANUP_INTERVAL == 300
RATE_LIMIT_ATTEMPTS == 6
RATE_LIMIT_SECONDS == 60
FALLBACK_MODULUS == 10000
HMAC_SECRET == "secret"

None == [none |-> TRUE]

(***************************************************************************)
(* Bounds of the model                                                     *)
(***************************************************************************)
MaxAttempts == 6        \* judged submits per challenge explored
MaxGen == 2             \* challenges generated per session explored
MaxProbeLen == 2        \* longest payload string of the signer exercise

\* Instants at which requests are served: 570 and 600 are less than 60 s apart
\* and lie in the signature windows 1 and 2, 3660 is past the TTL of a session
\* created at 0 and within that of one created later.
Times == {0, 570, 600, 3660}
SIDs == {"s1"}                  \* ids uuid4 can hand out
ClientSIDs == SIDs \cup {"zz"}  \* ids a client can present; "zz" is never created
CIDs == {"c1", "c2"}            \* captcha ids

(***************************************************************************)
(* Strings                                                                 *)
(***************************************************************************)
DigitChars == <<"0", "1", "2", "3", "4", "5", "6", "7", "8", "9">>

RECURSIVE Digits(_)
\* str(n) for an integer n
Digits(n) ==
    IF n < 0 THEN <<"-">> \o Digits(0 - n)
    ELSE IF n < 10 THEN <<DigitChars[n + 1]>>
    ELSE Digits(n \div 10) \o <<DigitChars[(n % 10) + 1]>>

\* str.lower() on one character
LowerChar(c) ==
    CASE c = "S" -> "s" [] c = "O" -> "o" [] c = "L" -> "l"
      [] c = "A" -> "a" [] c = "R" -> "r" [] c = "E" -> "e"
      [] c = "D" -> "d" [] c = "X" -> "x"
      [] OTHER -> c

\* str.upper() on one character (used to build client answers)
UpperChar(c) ==
    CASE c = "s" -> "S" [] c = "o" -> "O" [] c = "l" -> "L"
      [] c = "a" -> "A" [] c = "r" -> "R" [] c = "e" -> "E"
      [] c = "d" -> "D" [] c = "x" -> "X"
      [] OTHER -> c

Upper(s) == [i \in 1..Len(s) |-> UpperChar(s[i])]

Lower(s) == [i \in 1..Len(s) |-> LowerChar(s[i])]

IsSpace(c) == c = " "

RECURSIVE LStrip(_)
LStrip(s) == IF s # <<>> /\ IsSpace(Head(s)) THEN LStrip(Tail(s)) ELSE s

RECURSIVE RStrip(_)
RStrip(s) == IF s # <<>> /\ IsSpace(s[Len(s)]) THEN RStrip(SubSeq(s, 1, Len(s) - 1)) ELSE s

\* str.strip()
Strip(s) == RStrip(LStrip(s))

(***************************************************************************)
(* security.py                                                             *)
(***************************************************************************)
\* hmac.new(key, msg, sha256).hexdigest(), as a collision-free MAC
\* variant: a digest that ignores the message
HmacHex_KeyOnly(key, msg) == [key |-> key, msg |-> <<>>]

HmacHex(key, msg) == [key |-> key, msg |-> msg]

\* int(time.time() // WINDOW_SECONDS)
WindowOf(t) == t \div WINDOW_SECONDS

\* variant: a signed message without the payload
SignMsg_NoPayload(session_id, payload_str, ts) ==
    session_id \o <<"|">> \o Digits(ts)

\* f"{session_id}|{payload_str}|{ts}"
SignMsg(session_id, payload_str, ts) ==
    session_id \o <<"|">> \o payload_str \o <<"|">> \o Digits(ts)

sign_payload(session_id, payload_str, t) ==
    HmacHex(HMAC_SECRET, SignMsg(session_id, payload_str, WindowOf(t)))

\* variant: only the current window is tried
VerifyOffsets_CurrentOnly == {0}

\* variant: the window two before the current one is tried as well
VerifyOffsets_TwoBack == {0, -1, -2}

VerifyOffsets == {0, -1}

verify_signature(session_id, payload_str, signature, t) ==
    \E offset \in VerifyOffsets :
        HmacHex(HMAC_SECRET, SignMsg(session_id, payload_str, WindowOf(t) + offset)) = signature

(***************************************************************************)
(* sessions.py                                                             *)
(***************************************************************************)
NewSession(t) ==
    [created |-> t, captcha |-> None, attempts |-> 0, last_attempt |-> 0,
     generation_count |-> 0]

\* variant: a session lives twice the TTL
Expired_Lenient(s, t) == t - s.created > 2 * SESSION_TTL

Expired(s, t) == t - s.created > SESSION_TTL

\* dict.update(data)
Merge(d, data) ==
    [f \in DOMAIN d \cup DOMAIN data |-> IF f \in DOMAIN data THEN data[f] ELSE d[f]]

\* variant: every call sweeps
Cleanup_Eager(tab, lc, t) ==
    [tab |-> [k \in {k \in DOMAIN tab : ~Expired(tab[k], t)} |-> tab[k]], lc |-> t]

\* InMemorySession._cleanup: [tab, lc] after the call
Cleanup(tab, lc, t) ==
    IF t - lc > CLEANUP_INTERVAL
    THEN [tab |-> [k \in {k \in DOMAIN tab : ~Expired(tab[k], t)} |-> tab[k]], lc |-> t]
    ELSE [tab |-> tab, lc |-> lc]

\* InMemorySession.create with uuid4 having drawn sid
StoreCreate(tab, lc, sid, t) ==
    Cleanup([k \in DOMAIN tab \cup {sid} |-> IF k = sid THEN NewSession(t) ELSE tab[k]], lc, t)

\* InMemorySession.get: [tab, found, s]
StoreGet(tab, sid, t) ==
    IF sid \notin DOMAIN tab THEN [tab |-> tab, found |-> FALSE, s |-> None]
    ELSE IF Expired(tab[sid], t)
         THEN [tab |-> [k \in DOMAIN tab \ {sid} |-> tab[k]], found |-> FALSE, s |-> None]
         ELSE [tab |-> tab, found |-> TRUE, s |-> tab[sid]]

\* InMemorySession.update
StoreUpdate(tab, lc, sid, data, t) ==
    IF sid \in DOMAIN tab
    THEN Cleanup([tab EXCEPT ![sid] = Merge(tab[sid], data)], lc, t)
    ELSE [tab |-> tab, lc |-> lc]

(***************************************************************************)
(* JSON values that cross the HTTP boundary (answers, normalized answers)  *)
(* carry their Python type:  [kind, val].                                  *)
(***************************************************************************)
JNull == [kind |-> "null"]
JStr(s) == [kind |-> "str", val |-> s]
JList(l) == [kind |-> "list", val |-> l]
\* a number and a string as the value of a key of a JSON object
JInt(n) == [int |-> n]
JText(s) == [str |-> s]
JPoint(x, y) == [kind |-> "dict", val |-> [x |-> JInt(x), y |-> JInt(y)]]
\* a JSON object with the given keys
JDict(d) == [kind |-> "dict", val |-> d]

RECURSIVE JoinInts(_, _)
\* sep.join(str(n) for n in l)
JoinInts(l, sep) ==
    IF l = <<>> THEN <<>>
    ELSE IF Len(l) = 1 THEN Digits(l[1])
    ELSE Digits(l[1]) \o sep \o JoinInts(Tail(l), sep)

\* repr of the value of a key
MemberStr(m) ==
    IF "int" \in DOMAIN m THEN Digits(m.int) ELSE <<"'">> \o m.str \o <<"'">>

RECURSIVE ItemsStr(_, _)
\* the items of a dict in key order, as str(dict) prints them
ItemsStr(d, keys) ==
    IF keys = <<>> THEN <<>>
    ELSE IF Head(keys) \notin DOMAIN d THEN ItemsStr(d, Tail(keys))
    ELSE <<"'", Head(keys), "'", ":", " ">> \o MemberStr(d[Head(keys)])
         \o (IF \E i \in 2..Len(keys) : keys[i] \in DOMAIN d THEN <<",", " ">> ELSE <<>>)
         \o ItemsStr(d, Tail(keys))

\* a JSON number that is an integer
JNum(n) == [kind |-> "int", val |-> n]

\* str(v)
PyStr(v) ==
    CASE v.kind = "str" -> v.val
      [] v.kind = "int" -> Digits(v.val)
      [] v.kind = "null" -> <<"N", "o", "n", "e">>
      [] v.kind = "list" -> <<"[">> \o JoinInts(v.val, <<",", " ">>) \o <<"]">>
      [] v.kind = "dict" -> <<"{">> \o ItemsStr(v.val, <<"x", "y">>) \o <<"}">>

\* dict.get(key, default)
Get(d, key, default) == IF key \in DOMAIN d THEN d[key] ELSE default

(***************************************************************************)
(* gemini_client.py : local generator                                      *)
(***************************************************************************)
LocalMetadata == [generated_by |-> "local_fallback", seed |-> None]

\* f"Type the word '{word}'"
TypeTheWord(word) == <<"Type the word '">> \o word \o <<"'">>

LocalText(cid, word) ==
    [captcha_id |-> cid, captcha_type |-> "text",
     instructions |-> <<"Type the word shown (case-insensitive).">>,
     ui_data |-> [question |-> TypeTheWord(word), hint |-> "case-insensitive"],
     solution |-> [value |-> word],
     metadata |-> LocalMetadata]

\* variant: the operands of the subtraction are exchanged
MathVal_Swapped(a, op, b) == CASE op = "+" -> a + b [] op = "-" -> b - a [] OTHER -> a * b

\* val in the math branch
MathVal(a, op, b) == CASE op = "+" -> a + b [] op = "-" -> a - b [] OTHER -> a * b

LocalMath(cid, a, op, b) ==
    [captcha_id |-> cid, captcha_type |-> "math",
     instructions |-> <<"Solve the arithmetic expression and type the result.">>,
     ui_data |-> [question |-> <<"What is ">> \o Digits(a) \o <<" ", op, " ">> \o Digits(b) \o <<" ?">>],
     solution |-> [value |-> Digits(MathVal(a, op, b))],
     metadata |-> LocalMetadata]

LocalPattern(cid, shapes, seq) ==
    [captcha_id |-> cid, captcha_type |-> "pattern",
     instructions |-> <<"Click the shapes in the required order.">>,
     ui_data |-> [shapes |-> shapes],
     solution |-> [sequence |-> seq],
     metadata |-> LocalMetadata]

LocalImagePoint(cid, word, x, y, tol) ==
    [captcha_id |-> cid, captcha_type |-> "image",
     instructions |-> <<"Click the indicated target in the image.">>,
     ui_data |-> [description |-> <<"Render a noisy background with the word '">> \o word
                                  \o <<"' ... ring near coordinates approx ">>
                                  \o Digits(x) \o <<",">> \o Digits(y),
                  hint |-> "Click the small ring or target in the image."],
     solution |-> [x |-> x, y |-> y, tolerance |-> tol],
     metadata |-> LocalMetadata]

LocalImageWord(cid, word) ==
    [captcha_id |-> cid, captcha_type |-> "image",
     instructions |-> <<"Type the word shown in the image (case-insensitive).">>,
     ui_data |-> [description |-> <<"Render a noisy image containing the word '">> \o word \o <<"' ...">>,
                  hint |-> "Type the word you can read"],
     solution |-> [value |-> word],
     metadata |-> LocalMetadata]

LocalAudioWord(cid, word) ==
    [captcha_id |-> cid, captcha_type |-> "audio",
     instructions |-> <<"Listen to the audio and type what you hear.">>,
     ui_data |-> [text |-> <<"Please type the word ">> \o word, hint |-> "case-insensitive"],
     solution |-> [value |-> word],
     metadata |-> LocalMetadata]

LocalAudioDigits(cid, nums) ==
    [captcha_id |-> cid, captcha_type |-> "audio",
     instructions |-> <<"Listen and type the numbers spoken.">>,
     ui_data |-> [text |-> <<"Type the numbers: ">> \o JoinInts(nums, <<" ">>),
                  hint |-> "digits separated by space"],
     solution |-> [value |-> JoinInts(nums, <<" ">>)],
     metadata |-> LocalMetadata]

\* the dict `common` of _nearest_color_name, in insertion order: <<name, rgb>>
CommonColors ==
    <<
       << <<"r", "e", "d">>, <<255, 0, 0>> >>,
       << <<"g", "r", "e", "e", "n">>, <<0, 255, 0>> >>,
       << <<"b", "l", "u", "e">>, <<0, 0, 255>> >>,
       << <<"y", "e", "l", "l", "o", "w">>, <<255, 255, 0>> >>,
       << <<"o", "r", "a", "n", "g", "e">>, <<255, 165, 0>> >>,
       << <<"p", "u", "r", "p", "l", "e">>, <<128, 0, 128>> >>,
       << <<"p", "i", "n", "k">>, <<255, 192, 203>> >>,
       << <<"b", "l", "a", "c", "k">>, <<0, 0, 0>> >>,
       << <<"w", "h", "i", "t", "e">>, <<255, 255, 255>> >>,
       << <<"g", "r", "a", "y">>, <<128, 128, 128>> >>,
       << <<"b", "r", "o", "w", "n">>, <<165, 42, 42>> >>,
       << <<"c", "y", "a", "n">>, <<0, 255, 255>> >>
    >>

\* variant: the absolute value in place of the square
Sq_Abs(n) == IF n < 0 THEN -n ELSE n

Sq(n) == n * n

\* the square of the distance d of _nearest_color_name
ColorDist2(c, rgb) == Sq(c[1] - rgb[1]) + Sq(c[2] - rgb[2]) + Sq(c[3] - rgb[3])

RECURSIVE NearestFrom(_, _, _)
\* the loop of _nearest_color_name from entry i on, best so far being entry b (0: none)
NearestFrom(i, b, rgb) ==
    IF i > Len(CommonColors) THEN b
    ELSE IF b = 0 \/ ColorDist2(CommonColors[i][2], rgb) < ColorDist2(CommonColors[b][2], rgb)
         THEN NearestFrom(i + 1, i, rgb)
         ELSE NearestFrom(i + 1, b, rgb)

NearDistance == 150

\* _nearest_color_name(rgb); the hex form stands as one token
nearest_color_name(rgb) ==
    LET b == NearestFrom(1, 0, rgb) IN
    IF b # 0 /\ ColorDist2(CommonColors[b][2], rgb) < Sq(NearDistance)
    THEN CommonColors[b][1]
    ELSE <<"#">> \o Digits(rgb[1]) \o <<".">> \o Digits(rgb[2]) \o <<".">> \o Digits(rgb[3])

LocalColor(cid, color) ==
    [captcha_id |-> cid, captcha_type |-> "color",
     instructions |-> <<"Type the name (or hex) of the color shown.">>,
     ui_data |-> [color_rgb |-> color,
                  hint |-> "Common names or hex are accepted (case-insensitive)."],
     solution |-> [value |-> nearest_color_name(color)],
     metadata |-> LocalMetadata]

\* Draws of _local_generate_random_challenge explored, one or two per branch
Word1 == <<"s", "o", "l">>

LocalChallenges(cid) ==
    { LocalText(cid, Word1),
      LocalMath(cid, 2, "-", 3),
      LocalPattern(cid, <<"tri", "dot", "dia", "sq">>, <<2, 0, 1>>),
      LocalImagePoint(cid, Word1, 100, 100, 15),
      LocalAudioWord(cid, Word1),
      LocalColor(cid, <<255, 0, 0>>) }

(***************************************************************************)
(* gemini_client.py : remote generation                                    *)
(***************************************************************************)
NoReply == [ok |-> FALSE]       \* _post_prompt or json.loads raised
Reply(data) == [ok |-> TRUE, data |-> data]

\* JSON objects the remote model is taken to answer a generation prompt with:
\* a well-formed text challenge with its own id, an unsupported type, an object
\* without captcha_id and captcha_type, and a color challenge with a bad color_rgb
RemoteChallenges ==
    { [captcha_id |-> "c1", captcha_type |-> "text", instructions |-> <<"Type it">>,
       ui_data |-> [question |-> TypeTheWord(Word1)], solution |-> [value |-> Word1]],
      [captcha_id |-> "c2", captcha_type |-> "video", instructions |-> <<"Watch">>,
       ui_data |-> [question |-> <<"?">>], solution |-> [value |-> Word1]],
      [instructions |-> <<"Type it">>,
       ui_data |-> [question |-> TypeTheWord(Word1)], solution |-> [value |-> Word1]],
      [captcha_id |-> "c2", captcha_type |-> "color", instructions |-> <<"Name it">>,
       ui_data |-> [color_rgb |-> <<255, 0>>], solution |-> [value |-> <<"r", "e", "d">>]] }

GenReplies == {NoReply} \cup {Reply(d) : d \in RemoteChallenges}

\* decide_and_create_challenge: configured says whether the endpoint and key are set,
\* reply is the outcome of the one remote call, rid the _rand_id() drawn when the reply
\* has no captcha_id, local the local generator's output
decide_and_create_challenge(configured, reply, rid, local) ==
    IF configured /\ reply.ok
    THEN LET d1 == IF "captcha_id" \notin DOMAIN reply.data
                   THEN Merge(reply.data, [captcha_id |-> rid]) ELSE reply.data
         IN  IF "captcha_type" \notin DOMAIN d1
             THEN Merge(d1, [captcha_type |-> "text"]) ELSE d1
    ELSE local

(***************************************************************************)
(* gemini_client.py : verification                                         *)
(***************************************************************************)
JFalsy(v) == v.kind = "null" \/ (v.kind \in {"str", "list"} /\ v.val = <<>>)

\* a == b on JSON values
JEq(a, b) == a.kind = b.kind /\ (a.kind = "null" \/ a.val = b.val)

RECURSIVE SplitOn(_, _)
\* s.split(sep) for a one-character sep
SplitOn(s, sep) ==
    IF \A i \in 1..Len(s) : s[i] # sep THEN <<s>>
    ELSE LET i == CHOOSE i \in 1..Len(s) : s[i] = sep /\ \A j \in 1..(i - 1) : s[j] # sep
         IN  <<SubSeq(s, 1, i - 1)>> \o SplitOn(SubSeq(s, i + 1, Len(s)), sep)

IsDigitStr(s) == s # <<>> /\ \A i \in 1..Len(s) : \E d \in 1..10 : DigitChars[d] = s[i]

RECURSIVE ParseInt(_)
\* int(s) for a string of digits
ParseInt(s) ==
    IF s = <<>> THEN 0
    ELSE ParseInt(SubSeq(s, 1, Len(s) - 1)) * 10
         + ((CHOOSE d \in 1..10 : DigitChars[d] = s[Len(s)]) - 1)

RECURSIVE ParseIndices(_)
\* [int(x.strip()) for x in parts if x.strip().isdigit()]
ParseIndices(parts) ==
    IF parts = <<>> THEN <<>>
    ELSE LET x == Strip(Head(parts)) IN
         (IF IsDigitStr(x) THEN <<ParseInt(x)>> ELSE <<>>) \o ParseIndices(Tail(parts))

\* str(sol.get("value", "")).strip().lower()
ExpectedValue(sol) == Lower(Strip(Get(sol, "value", <<>>)))

\* str(user_answer).strip().lower()
\* variant: the answer is compared case-sensitively
Provided_CaseSensitive(user_answer) == Strip(PyStr(user_answer))

Provided(user_answer) == Lower(Strip(PyStr(user_answer)))

StringCompare(sol, user_answer, explanation) ==
    [ok |-> TRUE, correct |-> ExpectedValue(sol) = Provided(user_answer),
     explanation |-> explanation, normalized_answer |-> JStr(Provided(user_answer))]

\* sol.get("sequence") or sol.get("value")
ExpectedSeq(sol) ==
    IF "sequence" \in DOMAIN sol /\ sol.sequence # <<>> THEN JList(sol.sequence)
    ELSE IF "value" \in DOMAIN sol THEN JStr(sol.value)
    ELSE JNull

UserSeq(user_answer) ==
    CASE user_answer.kind = "str" ->
            IF \E i \in 1..Len(user_answer.val) : user_answer.val[i] = ","
            THEN JList(ParseIndices(SplitOn(user_answer.val, ",")))
            ELSE user_answer
      [] user_answer.kind = "list" -> user_answer
      [] OTHER -> JList(<<>>)

PatternCompare(sol, user_answer) ==
    [ok |-> TRUE, correct |-> JEq(UserSeq(user_answer), ExpectedSeq(sol)),
     explanation |-> "fallback-sequence-compare", normalized_answer |-> UserSeq(user_answer)]

DefaultTolerance == 18
MissingCoordinate == -9999

\* what an except clause of verify_with_ai returns
\* variant: an exception counts as a wrong answer
Caught_AsIncorrect(explanation) ==
    [ok |-> TRUE, correct |-> FALSE, explanation |-> explanation, error |-> "exception"]

Caught(explanation) ==
    [ok |-> FALSE, correct |-> FALSE, explanation |-> explanation, error |-> "exception"]

\* int(m) for the value of a key: [ok, val], ok false when int() raises
IntOf(m) ==
    IF "int" \in DOMAIN m THEN [ok |-> TRUE, val |-> m.int]
    ELSE IF IsDigitStr(Strip(m.str)) THEN [ok |-> TRUE, val |-> ParseInt(Strip(m.str))]
    ELSE [ok |-> FALSE]

\* the point branch; math.hypot(dx, dy) <= tol is compared on the squares
PointCompare(sol, user_answer) ==
    LET tx == sol.x
        ty == sol.y
        tol == Get(sol, "tolerance", DefaultTolerance)
    IN  IF user_answer.kind = "dict" \/ (user_answer.kind = "list" /\ Len(user_answer.val) >= 2)
        THEN LET ux == IF user_answer.kind = "dict"
                       THEN IntOf(Get(user_answer.val, "x", JInt(MissingCoordinate)))
                       ELSE IntOf(JInt(user_answer.val[1]))
                 uy == IF user_answer.kind = "dict"
                       THEN IntOf(Get(user_answer.val, "y", JInt(MissingCoordinate)))
                       ELSE IntOf(JInt(user_answer.val[2]))
             IN  IF ~ux.ok \/ ~uy.ok THEN Caught("fallback-exception-image")
                 ELSE LET dist2 == Sq(ux.val - tx) + Sq(uy.val - ty) IN
                      [ok |-> TRUE, correct |-> (tol >= 0 /\ dist2 <= Sq(tol)),
                       explanation |-> "fallback-point",
                       normalized_answer |-> [kind |-> "dict", val |-> [distance2 |-> dist2]]]
        ELSE [ok |-> TRUE, correct |-> FALSE, explanation |-> "fallback-bad-input-for-image"]

\* a solution that is a JSON object; any other JSON value is carried as [kind, val]
SolIsDict(sol) == "kind" \notin DOMAIN sol

\* the local heuristics of verify_with_ai; sol.get and "x" in sol raise on a
\* solution that is no dict, which the outer except clause catches
VerifyLocal(stored_challenge, user_answer) ==
    LET ctype == Get(stored_challenge, "captcha_type", "None")
        sol == Get(stored_challenge, "solution", <<>>)
    IN  IF ctype \in {"text", "math", "audio", "pattern", "image", "color"} /\ ~SolIsDict(sol)
        THEN Caught("fallback-exception")
        ELSE
        CASE ctype \in {"text", "math", "audio"} ->
                StringCompare(sol, user_answer, "fallback-exact-compare")
          [] ctype = "pattern" -> PatternCompare(sol, user_answer)
          [] ctype = "image" ->
                IF "x" \in DOMAIN sol /\ "y" \in DOMAIN sol
                THEN PointCompare(sol, user_answer)
                ELSE StringCompare(sol, user_answer, "fallback-image-word-compare")
          [] ctype = "color" -> StringCompare(sol, user_answer, "fallback-color-compare")
          [] OTHER -> [ok |-> FALSE, correct |-> FALSE, explanation |-> "unsupported-type-fallback"]

\* JSON objects the remote model is taken to answer a verification prompt with
RemoteVerdicts ==
    { [correct |-> TRUE, explanation |-> "remote-explanation",
       normalized_answer |-> JStr(<<"remote-normalized">>)],
      [correct |-> FALSE, explanation |-> "remote-explanation"],
      [explanation |-> "remote-explanation", normalized_answer |-> JStr(<<>>)] }

JudgeReplies == {NoReply} \cup {Reply(d) : d \in RemoteVerdicts}

\* verify_with_ai: reply is the outcome of the one remote call
verify_with_ai(configured, reply, stored_challenge, user_answer) ==
    IF configured /\ reply.ok
    THEN [ok |-> TRUE, correct |-> Get(reply.data, "correct", FALSE),
          explanation |-> Get(reply.data, "explanation", ""),
          normalized |-> Get(reply.data, "normalized_answer", JNull)]
    ELSE VerifyLocal(stored_challenge, user_answer)

(***************************************************************************)
(* captcha_generator.py, as far as agents.py depends on it                 *)
(***************************************************************************)
RECURSIVE Uniq(_, _)
\* the de-duplication loop of prepare_pattern_ui: acc followed by the new items of shapes
Uniq(acc, shapes) ==
    IF shapes = <<>> THEN acc
    ELSE IF \E i \in 1..Len(acc) : acc[i] = Head(shapes)
         THEN Uniq(acc, Tail(shapes))
         ELSE Uniq(Append(acc, Head(shapes)), Tail(shapes))

PadLetters == <<"A", "B", "C", "D", "E", "F", "G", "H">>
MinShapes == 4
PaddedShapes == 8

RECURSIVE Pad(_, _)
\* the padding loop of prepare_pattern_ui from letter i on
Pad(uniq, i) ==
    IF i > Len(PadLetters) THEN uniq
    ELSE LET u == IF \E j \in 1..Len(uniq) : uniq[j] = PadLetters[i]
                  THEN uniq ELSE Append(uniq, PadLetters[i])
         IN  IF Len(u) >= PaddedShapes THEN u ELSE Pad(u, i + 1)

prepare_pattern_ui(shapes) ==
    LET uniq == Uniq(<<>>, shapes) IN
    [shapes |-> IF Len(uniq) < MinShapes THEN Pad(uniq, 1) ELSE uniq,
     hint |-> "Click the shapes in the order requested. Tap each shape once."]

(***************************************************************************)
(* agents.py : GeneratorAgent                                              *)
(***************************************************************************)
\* variant: a type the renderer does not know is stored as it came
Render_PassesUnknown(ctype, ui_data, mediaOK) ==
    CASE ctype = "image" ->
            IF mediaOK THEN [ok |-> TRUE, ui |-> Merge(ui_data, [image_base64 |-> "png"])]
            ELSE [ok |-> FALSE, error |-> "render-error"]
      [] ctype = "audio" ->
            IF mediaOK THEN [ok |-> TRUE, ui |-> Merge(ui_data, [audio_base64 |-> "mp3"])]
            ELSE [ok |-> FALSE, error |-> "render-error"]
      [] ctype = "pattern" ->
            [ok |-> TRUE, ui |-> prepare_pattern_ui(Get(ui_data, "shapes", <<>>))]
      [] ctype = "color" ->
            IF "color_rgb" \in DOMAIN ui_data /\ Len(ui_data.color_rgb) = 3
            THEN IF mediaOK
                 THEN [ok |-> TRUE, ui |-> Merge(ui_data, [image_base64 |-> "png"])]
                 ELSE [ok |-> FALSE, error |-> "render-error"]
            ELSE [ok |-> FALSE, error |-> "Invalid color_rgb"]
      [] ctype \in {"text", "math"} -> [ok |-> TRUE, ui |-> ui_data]
      [] OTHER -> [ok |-> TRUE, ui |-> ui_data]

\* The try block of GeneratorAgent.run: [ok, ui] or [ok, error].  mediaOK says
\* whether the media library call (PIL, gTTS) of this run returns normally.
Render(ctype, ui_data, mediaOK) ==
    CASE ctype = "image" ->
            IF mediaOK THEN [ok |-> TRUE, ui |-> Merge(ui_data, [image_base64 |-> "png"])]
            ELSE [ok |-> FALSE, error |-> "render-error"]
      [] ctype = "audio" ->
            IF mediaOK THEN [ok |-> TRUE, ui |-> Merge(ui_data, [audio_base64 |-> "mp3"])]
            ELSE [ok |-> FALSE, error |-> "render-error"]
      [] ctype = "pattern" ->
            [ok |-> TRUE, ui |-> prepare_pattern_ui(Get(ui_data, "shapes", <<>>))]
      [] ctype = "color" ->
            IF "color_rgb" \in DOMAIN ui_data /\ Len(ui_data.color_rgb) = 3
            THEN IF mediaOK
                 THEN [ok |-> TRUE, ui |-> Merge(ui_data, [image_base64 |-> "png"])]
                 ELSE [ok |-> FALSE, error |-> "render-error"]
            ELSE [ok |-> FALSE, error |-> "Invalid color_rgb"]
      [] ctype \in {"text", "math"} -> [ok |-> TRUE, ui |-> ui_data]
      [] OTHER -> [ok |-> FALSE, error |-> "Unsupported captcha_type"]

\* "solara" + str(int(time.time()) % 10000)
FallbackWord(t) == <<"s", "o", "l", "a", "r", "a">> \o Digits(t % FALLBACK_MODULUS)

\* the challenge built in the except branch
FallbackChallenge(challenge, error, t) ==
    [captcha_id |-> challenge.captcha_id,
     captcha_type |-> "text",
     instructions |-> TypeTheWord(FallbackWord(t)),
     ui_data |-> [question |-> TypeTheWord(FallbackWord(t))],
     solution |-> [value |-> FallbackWord(t)],
     metadata |-> [fallback |-> TRUE, render_error |-> error]]

\* the keys of a challenge in sorted order
SortedKeys ==
    <<"captcha_id", "captcha_type", "instructions", "metadata", "solution", "ui_data">>

\* json.dumps(d, sort_keys=True): the items of d in key order
JsonDumps(d) ==
    LET IsKey(k) == k \in DOMAIN d
        keys == SelectSeq(SortedKeys, IsKey)
    IN  [i \in 1..Len(keys) |-> <<keys[i], d[keys[i]]>>]

\* challenge_to_store: the rendered challenge, or the fallback
ChallengeToStore(challenge, mediaOK, t) ==
    LET r == Render(challenge.captcha_type, Get(challenge, "ui_data", <<>>), mediaOK) IN
    IF r.ok THEN Merge(challenge, [ui_data |-> r.ui])
    ELSE FallbackChallenge(challenge, r.error, t)

\* the dict returned to the client
\* variant: the whole stored challenge is returned
PublicView_Unredacted(challenge_to_store, signature) ==
    Merge(challenge_to_store, [signature |-> signature])

PublicView(challenge_to_store, signature) ==
    [captcha_id |-> challenge_to_store.captcha_id,
     captcha_type |-> challenge_to_store.captcha_type,
     instructions |-> Get(challenge_to_store, "instructions", <<>>),
     ui_data |-> challenge_to_store.ui_data,
     signature |-> signature]

\* variant: an unknown id gets a session made for it
InvalidSession_Creates(tab, lc, session_id, t) ==
    [tab |-> StoreCreate(tab, lc, session_id, t).tab, lc |-> lc,
     ret |-> [error |-> "invalid-session"], generated |-> FALSE, render_ok |-> FALSE]

\* the return of GeneratorAgent.run when get finds no session: nothing is asked,
\* rendered, signed or written
InvalidSession(tab, lc, session_id, t) ==
    [tab |-> tab, lc |-> lc, ret |-> [error |-> "invalid-session"],
     generated |-> FALSE, render_ok |-> FALSE]

\* variant: the attempts of the previous challenge are carried over
IssueUpdate_KeepsAttempts(challenge_to_store, signature, t, generation_count) ==
    [captcha |-> [challenge |-> challenge_to_store, signature |-> signature, created |-> t],
     generation_count |-> generation_count + 1]

\* variant: the time of the last attempt is carried over
IssueUpdate_KeepsLastAttempt(challenge_to_store, signature, t, generation_count) ==
    [captcha |-> [challenge |-> challenge_to_store, signature |-> signature, created |-> t],
     attempts |-> 0,
     generation_count |-> generation_count + 1]

\* the fields GeneratorAgent.run writes; generation_count is the value read from the session
IssueUpdate(challenge_to_store, signature, t, generation_count) ==
    [captcha |-> [challenge |-> challenge_to_store, signature |-> signature, created |-> t],
     attempts |-> 0,
     last_attempt |-> 0,
     generation_count |-> generation_count + 1]

\* GeneratorAgent.run(session_id) at time t on table tab: the table, last_cleanup
\* and result after it, whether the oracle was asked and whether the try block
\* ended normally.  challenge is what decide_and_create_challenge returns in this run.
GeneratorRun(tab, lc, session_id, t, challenge, mediaOK) ==
    LET g == StoreGet(tab, session_id, t) IN
    IF ~g.found
    THEN InvalidSession(g.tab, lc, session_id, t)
    ELSE LET challenge_to_store == ChallengeToStore(challenge, mediaOK, t)
             signature == sign_payload(<<session_id>>, JsonDumps(challenge_to_store), t)
             u == StoreUpdate(g.tab, lc, session_id,
                    IssueUpdate(challenge_to_store, signature, t, g.s.generation_count), t)
         IN  [tab |-> u.tab, lc |-> u.lc,
              ret |-> PublicView(challenge_to_store, signature), generated |-> TRUE,
              render_ok |-> Render(challenge.captcha_type, Get(challenge, "ui_data", <<>>),
                                   mediaOK).ok]

(***************************************************************************)
(* agents.py : ValidatorAgent                                              *)
(***************************************************************************)
RateLimited(attempts, last_attempt, t) ==
    attempts >= RATE_LIMIT_ATTEMPTS /\ t - last_attempt < RATE_LIMIT_SECONDS

\* verify_result.get("normalized") or verify_result.get("normalized_answer")
Normalized(verify_result) ==
    IF JFalsy(Get(verify_result, "normalized", JNull))
    THEN Get(verify_result, "normalized_answer", JNull)
    ELSE verify_result.normalized

NoActiveCaptcha == [success |-> FALSE, error |-> "No active captcha"]
SignatureInvalid ==
    [success |-> FALSE, error |-> "Stored challenge failed signature verification"]
TooManyAttempts == [success |-> FALSE, error |-> "Too many attempts. Try again later."]

\* an early return of ValidatorAgent.run: nothing is written, the oracle is not asked
Rejected(tab, lc, ret) ==
    [tab |-> tab, lc |-> lc, judged |-> FALSE, by_remote |-> FALSE, ret |-> ret]

\* variant: a failed signature check counts as an attempt
SignatureRejected_CountsAttempt(tab, lc, session_id, s, t) ==
    Rejected([tab EXCEPT ![session_id].attempts = @ + 1], lc, SignatureInvalid)

\* the return on a failed signature check
SignatureRejected(tab, lc, session_id, s, t) == Rejected(tab, lc, SignatureInvalid)

\* variant: a rejected submit moves the time of the last attempt
RateRejected_Stamps(tab, lc, session_id, s, t) ==
    Rejected([tab EXCEPT ![session_id].last_attempt = t], lc, TooManyAttempts)

\* the return on the rate limit
RateRejected(tab, lc, session_id, s, t) == Rejected(tab, lc, TooManyAttempts)

\* variant: the time of the attempt is not recorded
AttemptUpdate_NoTime(attempts, t) == [attempts |-> attempts + 1]

\* the fields written after verify_with_ai
AttemptUpdate(attempts, t) == [attempts |-> attempts + 1, last_attempt |-> t]

\* variant: a correct answer resets the attempts only
ClearUpdate_KeepsChallenge == [attempts |-> 0]

\* the fields written on a correct answer
ClearUpdate == [captcha |-> None, attempts |-> 0]

\* ValidatorAgent.run(session_id, user_answer) at time t; reply is the outcome of
\* the remote verification call, made only when the run reaches verify_with_ai
ValidatorRun(tab, lc, configured, session_id, user_answer, t, reply) ==
    LET g == StoreGet(tab, session_id, t) IN
    IF ~g.found \/ g.s.captcha = None
    THEN Rejected(g.tab, lc, NoActiveCaptcha)
    ELSE
    LET challenge == g.s.captcha.challenge
        signature == g.s.captcha.signature
    IN
    IF ~verify_signature(<<session_id>>, JsonDumps(challenge), signature, t)
    THEN SignatureRejected(g.tab, lc, session_id, g.s, t)
    ELSE IF RateLimited(g.s.attempts, g.s.last_attempt, t)
    THEN RateRejected(g.tab, lc, session_id, g.s, t)
    ELSE
    LET verify_result == verify_with_ai(configured, reply, challenge, user_answer)
        u1 == StoreUpdate(g.tab, lc, session_id, AttemptUpdate(g.s.attempts, t), t)
        by_remote == configured /\ reply.ok
    IN
    IF ~verify_result.ok
    THEN [tab |-> u1.tab, lc |-> u1.lc, judged |-> TRUE, by_remote |-> by_remote,
          ret |-> [success |-> FALSE, error |-> "verification_unavailable",
                   meta |-> verify_result.explanation]]
    ELSE IF verify_result.correct
    THEN LET u2 == StoreUpdate(u1.tab, u1.lc, session_id, ClearUpdate, t)
         IN  [tab |-> u2.tab, lc |-> u2.lc, judged |-> TRUE, by_remote |-> by_remote,
              ret |-> [success |-> TRUE, message |-> "Captcha correct",
                       explanation |-> verify_result.explanation,
                       normalized |-> Normalized(verify_result)]]
    ELSE [tab |-> u1.tab, lc |-> u1.lc, judged |-> TRUE, by_remote |-> by_remote,
          ret |-> [success |-> FALSE, message |-> "Incorrect captcha",
                   explanation |-> verify_result.explanation,
                   normalized |-> Normalized(verify_result)]]

(***************************************************************************)
(* The service: app.py routes as actions                                   *)
(***************************************************************************)
\* captcha ids in use, which a fresh uuid differs from
UsedIds == {sessions[k].captcha.challenge.captcha_id :
                k \in {k \in DOMAIN sessions : sessions[k].captcha # None}}

LocalChallengesOf == [cid \in CIDs |-> LocalChallenges(cid)]

\* the id _rand_id() draws: uuid4 is taken never to repeat an id in use
FreshId == CHOOSE c \in CIDs : c \notin UsedIds

\* what decide_and_create_challenge can return in the current state
OracleChallenges ==
    { decide_and_create_challenge(remote, reply, FreshId, local) :
        reply \in (IF remote THEN GenReplies ELSE {NoReply}),
        local \in LocalChallengesOf[FreshId] }

\* what the remote verification call can come to in the current state
VerdictReplies == IF remote THEN JudgeReplies ELSE {NoReply}

\* answers a client sends for the challenge stored under sid
AnswersFor(sid) ==
    {JStr(<<"x">>)} \cup
    (IF sid \in DOMAIN sessions /\ sessions[sid].captcha # None
     THEN LET sol == Get(sessions[sid].captcha.challenge, "solution", <<>>) IN
          (IF "value" \in DOMAIN sol
           THEN {JStr(sol.value), JStr(Upper(sol.value))} ELSE {})
          \cup
          (IF "sequence" \in DOMAIN sol
           THEN {JList(sol.sequence), JStr(JoinInts(sol.sequence, <<",">>))} ELSE {})
          \cup
          (IF "x" \in DOMAIN sol
           THEN {JPoint(sol.x + 8, sol.y + 5), JPoint(sol.x + 20, sol.y + 20),
                 JDict([x |-> JText(<<"a">>), y |-> JInt(sol.y)])} ELSE {})
     ELSE {})

IdleProbe == [phase |-> "idle"]

\* bad: submits judged not correct against the current challenge, at: time of the
\* last judged submit, solved: the challenge was judged correct and none issued since,
\* prev: the captcha entry stored by the latest issue
NoHistory == [bad |-> 0, at |-> 0, solved |-> FALSE, prev |-> None]

Init ==
    /\ now = 0
    /\ sessions = <<>>
    /\ last_cleanup = 0
    /\ remote \in BOOLEAN
    /\ last = [op |-> "init"]
    /\ hist = [s \in SIDs |-> NoHistory]
    /\ probe = IdleProbe

\* the clock advances
Tick ==
    /\ \E t \in Times : t > now /\ now' = t
    /\ last' = [op |-> "tick"]
    /\ UNCHANGED <<sessions, last_cleanup, remote, hist, probe>>

\* POST /session
CreateSession ==
    \E sid \in SIDs \ DOMAIN sessions :
        LET c == StoreCreate(sessions, last_cleanup, sid, now) IN
        /\ sessions' = c.tab
        /\ last_cleanup' = c.lc
        /\ last' = [op |-> "create", sid |-> sid, ret |-> [session_id |-> sid]]
        /\ hist' = [hist EXCEPT ![sid] = NoHistory]
        /\ UNCHANGED <<now, remote, probe>>

\* GET /captcha/<session_id>
Issue ==
    \E sid \in ClientSIDs :
        /\ sid \in DOMAIN sessions => sessions[sid].generation_count < MaxGen
        /\ \E challenge \in (IF StoreGet(sessions, sid, now).found
                             THEN OracleChallenges ELSE {None}),
              mediaOK \in (IF StoreGet(sessions, sid, now).found THEN BOOLEAN ELSE {TRUE}) :
             \E r \in {GeneratorRun(sessions, last_cleanup, sid, now, challenge, mediaOK)} :
                 /\ sessions' = r.tab
                 /\ last_cleanup' = r.lc
                 /\ last' = [op |-> "issue", sid |-> sid, ret |-> r.ret,
                             generated |-> r.generated, render_ok |-> r.render_ok,
                             limited |-> r.generated
                                           /\ RateLimited(sessions[sid].attempts,
                                                          sessions[sid].last_attempt, now)]
                 /\ hist' = IF r.generated
                            THEN [hist EXCEPT ![sid] = [bad |-> 0, at |-> 0, solved |-> FALSE,
                                                        prev |-> r.tab[sid].captcha]]
                            ELSE hist
        /\ UNCHANGED <<now, remote, probe>>

\* POST /validate/<session_id>
Submit ==
    \E sid \in ClientSIDs :
        \E reply \in VerdictReplies, answer \in AnswersFor(sid) :
             \E r \in {ValidatorRun(sessions, last_cleanup, remote, sid, answer, now, reply)} :
                 /\ r.judged => sessions[sid].attempts < MaxAttempts
                 /\ sessions' = r.tab
                 /\ last_cleanup' = r.lc
                 /\ last' = [op |-> "submit", sid |-> sid, answer |-> answer,
                             ret |-> r.ret, judged |-> r.judged,
                             by_remote |-> r.by_remote]
                 /\ hist' = IF ~r.judged THEN hist
                            ELSE IF r.ret.success
                                 THEN [hist EXCEPT ![sid] = [@ EXCEPT !.bad = 0, !.at = now,
                                                                      !.solved = TRUE]]
                                 ELSE [hist EXCEPT ![sid] = [@ EXCEPT !.bad = @ + 1,
                                                                      !.at = now]]
        /\ UNCHANGED <<now, remote, probe>>

Next == Tick \/ CreateSession \/ Issue \/ Submit

Spec == Init /\ [][Next]_vars

(***************************************************************************)
(* The signer on its own: sign a payload, let time pass, verify a payload  *)
(***************************************************************************)
ProbeTimes == {0, 1, 299, 300, 301, 599, 600, 601, 899, 900}
ProbeChars == {"a", "|", "1"}
ProbeSIDs == {<<"s">>, <<"s", "|", "a">>}

\* strings over ProbeChars of length at most MaxProbeLen
ProbePayloads == UNION {[1..n -> ProbeChars] : n \in 0..MaxProbeLen}

InitSig ==
    /\ now = 0
    /\ sessions = <<>>
    /\ last_cleanup = 0
    /\ remote = FALSE
    /\ last = [op |-> "init"]
    /\ hist = [s \in SIDs |-> NoHistory]
    /\ probe = IdleProbe

\* sign_payload(s, p) is called at time now
ProbeSign ==
    /\ probe.phase = "idle"
    /\ \E s \in ProbeSIDs, p \in ProbePayloads :
         probe' = [phase |-> "signed", sid |-> s, payload |-> p, at |-> now,
                   signature |-> sign_payload(s, p, now)]
    /\ UNCHANGED <<now, sessions, last_cleanup, remote, last, hist>>

\* time passes before signing, or between signing and verification
ProbeWait ==
    /\ probe.phase \in {"idle", "signed"}
    /\ \E t \in ProbeTimes : t > now /\ now' = t
    /\ UNCHANGED <<sessions, last_cleanup, remote, last, hist, probe>>

\* verify_signature(s, p2, signature) is called at time now
ProbeVerify ==
    /\ probe.phase = "signed"
    /\ \E p2 \in ProbePayloads :
         probe' = [phase |-> "verified", sid |-> probe.sid, payload |-> probe.payload,
                   at |-> probe.at, signature |-> probe.signature,
                   presented |-> p2, verified_at |-> now,
                   result |-> verify_signature(probe.sid, p2, probe.signature, now)]
    /\ UNCHANGED <<now, sessions, last_cleanup, remote, last, hist>>

NextSig == ProbeSign \/ ProbeWait \/ ProbeVerify

SpecSig == InitSig /\ [][NextSig]_vars

(***************************************************************************)
(* The local verifier on its own: verify_with_ai without remote, and a     *)
(* submit on a session that holds the challenge                            *)
(***************************************************************************)
MaxIndex == 2           \* largest shape index in pattern sequences
MaxSeqLen == 3          \* longest pattern sequence

\* sequences of indices, as solutions and as answers
IndexSeqs == UNION {[1..n -> 0..MaxIndex] : n \in 0..MaxSeqLen}

\* offsets of the answered point from the target, around the tolerances in use
PointOffsets == {-9, 0, 8, 9, 12, 13, 15, 16, 18, 19, 20}
PointTolerances == {-1, 0, 15}

\* d without the key k
Without(d, k) == [f \in DOMAIN d \ {k} |-> d[f]]

\* image challenges with a point solution, with and without tolerance
JudgeImages ==
    {LocalImagePoint("c1", Word1, 100, 100, tol) : tol \in PointTolerances}
    \cup {[LocalImagePoint("c1", Word1, 100, 100, 0) EXCEPT
              !.solution = Without(@, "tolerance")]}

\* challenges issue can store: generated locally, or by the remote model with a
\* solution that is no object
StorableChallenges ==
    {ChallengeToStore(c, TRUE, 0) :
        c \in LocalChallenges("c1") \cup JudgeImages
              \cup {LocalPattern("c1", <<"tri", "dot", "dia", "sq">>, q) : q \in IndexSeqs}
              \cup {[LocalText("c1", Word1) EXCEPT !.solution = JStr(Word1)],
                    [LocalImagePoint("c1", Word1, 100, 100, 15) EXCEPT !.solution = JNull],
                    Without(LocalText("c1", Word1), "solution")}}

\* challenges verify_with_ai can be called with but issue never stores
UnstorableChallenges ==
    {[LocalText("c1", Word1) EXCEPT !.captcha_type = "video"],
     Without(LocalText("c1", Word1), "captcha_type")}

JudgeChallenges == StorableChallenges \cup UnstorableChallenges

\* answers a client can send for the challenge
JudgeAnswers(challenge) ==
    {JNull, JStr(<<"x">>), JStr(Word1), JList(<<>>)}
    \cup (IF Get(challenge, "captcha_type", "None") = "pattern"
          THEN {JList(q) : q \in IndexSeqs} \cup {JStr(JoinInts(q, <<",">>)) : q \in IndexSeqs}
               \cup {JStr(<<"0", ",", "x", ",", "1", ",", "2">>), JStr(<<"2", ",">>)}
          ELSE {})
    \cup (IF Get(challenge, "captcha_type", "None") = "image"
          THEN {JPoint(100 + dx, 100 + dy) : dx \in PointOffsets, dy \in PointOffsets}
               \cup {JList(<<100 + dx, 100 + dy>>) : dx \in {0, 9, 16}, dy \in {0, 12}}
               \cup {JList(<<100>>), JList(<<100, 100, 7>>),
                     JDict([y |-> JInt(100)]),
                     JDict([x |-> JText(<<"a">>), y |-> JInt(100)]),
                     JDict([x |-> JInt(100), y |-> JText(<<>>)]),
                     JDict([x |-> JText(<<"1", "0", "8">>), y |-> JInt(105)])}
          ELSE {})

\* the table with one session that holds the challenge, issued at time 0
StoredTable(challenge) ==
    "s1" :> [created |-> 0,
             captcha |-> [challenge |-> challenge,
                          signature |-> sign_payload(<<"s1">>, JsonDumps(challenge), 0),
                          created |-> 0],
             attempts |-> 0, last_attempt |-> 0, generation_count |-> 1]

\* what a submit of the answer does on that table
SubmitOn(challenge, answer) ==
    LET run == ValidatorRun(StoredTable(challenge), 0, FALSE, "s1", answer, 0, NoReply)
    IN  [ret |-> run.ret, captcha |-> run.tab["s1"].captcha,
         attempts |-> run.tab["s1"].attempts]

\* verify_with_ai(challenge, answer) is called with no remote configured; for a
\* challenge issue can store, ValidatorAgent.run is called on a session holding it
JudgeAnswer ==
    /\ probe.phase = "idle"
    /\ \E challenge \in JudgeChallenges :
         \E answer \in JudgeAnswers(challenge) :
            probe' = [phase |-> "judged", challenge |-> challenge, answer |-> answer,
                      stored |-> challenge \in StorableChallenges,
                      result |-> verify_with_ai(FALSE, NoReply, challenge, answer),
                      submit |-> IF challenge \in StorableChallenges
                                 THEN SubmitOn(challenge, answer) ELSE None]
    /\ UNCHANGED <<now, sessions, last_cleanup, remote, last, hist>>

InitJudge == InitSig

NextJudge == JudgeAnswer

SpecJudge == InitJudge /\ [][NextJudge]_vars

(***************************************************************************)
(* Start-up: security.py is imported before the application serves         *)
(***************************************************************************)
\* os.getenv("CAPTCHA_HMAC_SECRET"): absent, empty, or the secret
EnvSecrets == {[set |-> FALSE], [set |-> TRUE, val |-> ""], [set |-> TRUE, val |-> HMAC_SECRET]}

\* variant: only an absent secret is refused
SecretMissing_AbsentOnly(env) == ~env.set

\* not HMAC_SECRET
SecretMissing(env) == ~env.set \/ env.val = ""

InitBoot ==
    /\ now = 0
    /\ sessions = <<>>
    /\ last_cleanup = 0
    /\ remote \in BOOLEAN
    /\ last = [op |-> "init"]
    /\ hist = [s \in SIDs |-> NoHistory]
    /\ probe \in {[phase |-> "boot", env |-> e] : e \in EnvSecrets}

\* import of security.py: raise SystemExit when the secret is missing
LoadSecurity ==
    /\ probe.phase = "boot"
    /\ probe' = [probe EXCEPT !.phase = IF SecretMissing(probe.env) THEN "exited" ELSE "loaded"]
    /\ UNCHANGED <<now, sessions, last_cleanup, remote, last, hist>>

\* app.run(...) once the imports of app.py are done
StartApp ==
    /\ probe.phase = "loaded"
    /\ probe' = [probe EXCEPT !.phase = "serving"]
    /\ UNCHANGED <<now, sessions, last_cleanup, remote, last, hist>>

\* requests are served by the running application only
Serving == probe.phase = "serving"

NextBoot ==
    \/ LoadSecurity
    \/ StartApp
    \/ Serving /\ Tick
    \/ Serving /\ CreateSession
    \/ Serving /\ Issue

SpecBoot == InitBoot /\ [][NextBoot]_vars

(***************************************************************************)
(* The remote oracle call: _post_prompt, the parse of its text, and the    *)
(* fall through to the local generator / verifier                          *)
(***************************************************************************)
\* The text of a reply as a sequence of tokens: a JSON object, or a character
\* of the prose around it.
OTok(d) == [o |-> d]
CTok(c) == [c |-> c]

IsObj(tok) == "o" \in DOMAIN tok

\* json.loads(raw): the text must be one JSON object
JsonLoads(raw) == IF Len(raw) = 1 /\ IsObj(raw[1]) THEN Reply(raw[1].o) ELSE NoReply

\* raw[raw.find("{") : raw.rfind("}") + 1]
Braces(raw) ==
    IF \E i \in 1..Len(raw) : IsObj(raw[i])
    THEN SubSeq(raw, CHOOSE i \in 1..Len(raw) : IsObj(raw[i]) /\ \A j \in 1..(i - 1) : ~IsObj(raw[j]),
                     CHOOSE i \in 1..Len(raw) : IsObj(raw[i]) /\ \A j \in (i + 1)..Len(raw) : ~IsObj(raw[j]))
    ELSE <<>>

\* json.loads(raw), and on failure json.loads of the text between the braces
ExtractJson(raw) == IF JsonLoads(raw).ok THEN JsonLoads(raw) ELSE JsonLoads(Braces(raw))

\* texts a reply with the objects objs can consist of, parseable or not
RawTexts(objs) ==
    {<<OTok(d)>> : d \in objs}
    \cup {<<CTok("p"), OTok(d), CTok("q")>> : d \in objs}
    \cup {<<OTok(d), CTok("p"), OTok(d)>> : d \in objs}
    \cup {<<>>, <<CTok("p")>>}

\* outcomes of _post_prompt: an exception (connection error, timeout, HTTP error
\* status), or the text of the reply
PostOutcomes(objs) ==
    {[raised |-> TRUE, why |-> w] : w \in {"connection", "timeout", "status"}}
    \cup {[raised |-> FALSE, text |-> raw] : raw \in RawTexts(objs)}

\* what the try block makes of the outcome
ReplyOf(outcome) == IF outcome.raised THEN NoReply ELSE ExtractJson(outcome.text)

\* variant: a failed remote call is made again
AfterRemoteFailure_Retry == "entered"

\* except Exception: pass -- control goes on to the local path
AfterRemoteFailure == "failed"

\* challenges and answers verify_with_ai is exercised with
OracleStored == {ChallengeToStore(c, TRUE, 0) : c \in LocalChallenges("c1")}
OracleAnswers == {JStr(<<"x">>), JStr(Word1)}

\* decide_and_create_challenge or verify_with_ai is entered
OracleEnter ==
    /\ probe.phase = "idle"
    /\ \/ \E local \in LocalChallenges("c1") :
              probe' = [phase |-> "entered", op |-> "generate", calls |-> 0, local |-> local]
       \/ \E c \in OracleStored, a \in OracleAnswers :
              probe' = [phase |-> "entered", op |-> "judge", calls |-> 0,
                        local |-> VerifyLocal(c, a), challenge |-> c, answer |-> a]
    /\ UNCHANGED <<now, sessions, last_cleanup, remote, last, hist>>

\* the remote call of the operation, made when the endpoint is configured
OracleRemote ==
    /\ probe.phase = "entered"
    /\ remote
    /\ \E outcome \in PostOutcomes(IF probe.op = "generate" THEN RemoteChallenges
                                     ELSE RemoteVerdicts) :
         \E reply \in {ReplyOf(outcome)} :
            probe' = IF reply.ok
                     THEN Merge(probe,
                            [phase |-> "returned", calls |-> probe.calls + 1,
                             outcome |-> outcome,
                             result |-> IF probe.op = "generate"
                                        THEN decide_and_create_challenge(TRUE, reply, "c2",
                                                                         probe.local)
                                        ELSE verify_with_ai(TRUE, reply, probe.challenge,
                                                            probe.answer)])
                     ELSE Merge(probe, [phase |-> AfterRemoteFailure,
                                        calls |-> probe.calls + 1, outcome |-> outcome])
    /\ UNCHANGED <<now, sessions, last_cleanup, remote, last, hist>>

\* the local generator / verifier, reached with no endpoint configured or after
\* the remote call failed
OracleLocal ==
    /\ probe.phase = "failed" \/ (probe.phase = "entered" /\ ~remote)
    /\ probe' = Merge(probe,
                  [phase |-> "returned",
                   result |-> IF probe.op = "generate"
                              THEN decide_and_create_challenge(remote, NoReply, "c2", probe.local)
                              ELSE verify_with_ai(remote, NoReply, probe.challenge,
                                                  probe.answer)])
    /\ UNCHANGED <<now, sessions, last_cleanup, remote, last, hist>>

NextOracle == OracleEnter \/ OracleRemote \/ OracleLocal

InitOracle ==
    /\ now = 0
    /\ sessions = <<>>
    /\ last_cleanup = 0
    /\ remote \in BOOLEAN
    /\ last = [op |-> "init"]
    /\ hist = [s \in SIDs |-> NoHistory]
    /\ probe = IdleProbe

SpecOracle == InitOracle /\ [][NextOracle]_vars

(***************************************************************************)
(* The store at the grain of its lock: threads calling create, get and     *)
(* update, each body inside "with self.lock"                               *)
(***************************************************************************)
Threads == {"t1", "t2"}

\* ids uuid.uuid4().hex[:12] can draw; create does not look the draw up in the table
StoreSIDs == {"s1", "s2"}

\* 300 is the sweep interval itself, 4000 is past the TTL of a session made at 0
\* and exactly the TTL after 400
StoreTimes == {0, 300, 400, 4000}

StoreData == {[attempts |-> 1], [captcha |-> None]}

\* calls begun over a run
MaxStoreOps == 4

StoreOps ==
    [op : {"create"}, sid : StoreSIDs]
        \cup [op : {"get"}, sid : StoreSIDs]
        \cup [op : {"update"}, sid : StoreSIDs, data : StoreData]

IdleThread == [pc |-> "idle"]

\* threading.Lock.acquire blocks while another thread holds the lock
LockFree_Always(lock) == TRUE

LockFree(lock) == lock = "free"

InitStore ==
    /\ now = 0
    /\ sessions = <<>>
    /\ last_cleanup = 0
    /\ remote = FALSE
    /\ last = [op |-> "init"]
    /\ hist = [s \in SIDs |-> NoHistory]
    /\ probe = [phase |-> "store", lock |-> "free", ops |-> 0,
                th |-> [t \in Threads |-> IdleThread]]

\* a thread calls an operation and reaches its "with self.lock"; create has
\* drawn its id by then
StoreCall(t) ==
    /\ probe.th[t].pc = "idle"
    /\ probe.ops < MaxStoreOps
    /\ \E c \in StoreOps :
          probe' = [probe EXCEPT !.ops = @ + 1, !.th[t] = [pc |-> "wait", call |-> c]]
    /\ last' = [op |-> "call", thread |-> t]
    /\ UNCHANGED <<now, sessions, last_cleanup, remote, hist>>

\* __enter__ of the lock
StoreAcquire(t) ==
    /\ probe.th[t].pc = "wait"
    /\ LockFree(probe.lock)
    /\ probe' = [probe EXCEPT !.lock = t, !.th[t].pc = "in"]
    /\ last' = [op |-> "acquire", thread |-> t]
    /\ UNCHANGED <<now, sessions, last_cleanup, remote, hist>>

\* the body of the operation: the table is read and written, and create and
\* update end with _cleanup()
StoreBody(t) ==
    /\ probe.th[t].pc = "in"
    /\ \E c \in {probe.th[t].call} :
          \/ /\ c.op = "create"
             /\ \E r \in {StoreCreate(sessions, last_cleanup, c.sid, now)} :
                   /\ sessions' = r.tab
                   /\ last_cleanup' = r.lc
                   /\ last' = [op |-> "body", thread |-> t, sweep |-> TRUE,
                               removed |-> DOMAIN sessions \ DOMAIN r.tab]
          \/ /\ c.op = "get"
             /\ sessions' = StoreGet(sessions, c.sid, now).tab
             /\ last' = [op |-> "body", thread |-> t, sweep |-> FALSE,
                         removed |-> DOMAIN sessions \ DOMAIN StoreGet(sessions, c.sid, now).tab]
             /\ UNCHANGED last_cleanup
          \/ /\ c.op = "update"
             /\ \E r \in {StoreUpdate(sessions, last_cleanup, c.sid, c.data, now)} :
                   /\ sessions' = r.tab
                   /\ last_cleanup' = r.lc
                   /\ last' = [op |-> "body", thread |-> t, sweep |-> c.sid \in DOMAIN sessions,
                               removed |-> DOMAIN sessions \ DOMAIN r.tab]
    /\ probe' = [probe EXCEPT !.th[t].pc = "out"]
    /\ UNCHANGED <<now, remote, hist>>

\* __exit__ of the lock, and the return
StoreRelease(t) ==
    /\ probe.th[t].pc = "out"
    /\ probe' = [probe EXCEPT !.lock = "free", !.th[t] = IdleThread]
    /\ last' = [op |-> "release", thread |-> t]
    /\ UNCHANGED <<now, sessions, last_cleanup, remote, hist>>

StoreTick ==
    /\ \E t \in StoreTimes : t > now /\ now' = t
    /\ last' = [op |-> "tick"]
    /\ UNCHANGED <<sessions, last_cleanup, remote, hist, probe>>

NextStore ==
    \/ \E t \in Threads : StoreCall(t)
    \/ \E t \in Threads : StoreAcquire(t)
    \/ \E t \in Threads : StoreBody(t)
    \/ \E t \in Threads : StoreRelease(t)
    \/ StoreTick

SpecStore == InitStore /\ [][NextStore]_vars

(***************************************************************************)
(* Concurrent requests on one session: each handler is a thread of the     *)
(* server, and its run is a sequence of steps, one per access to shared    *)
(* state.  A store operation is one step (it runs under the store's lock); *)
(* the dict that get returns is the table's own entry, so every later read *)
(* of it sees the writes made by other handlers since.  The instants lie   *)
(* within the TTL of the session, which is never removed once created.     *)
(***************************************************************************)
Handlers == {"h1", "h2"}

ConcSID == "s1"

ConcTimes == {0, 30, 100}

\* handler runs begun over a behaviour
MaxCalls == 3

\* the id _rand_id() draws for the n-th challenge made: uuid4 never repeats
ConcId(n) == "c" \o ToString(n)

\* what decide_and_create_challenge returns, the n-th time it is called
ConcChallenge(n) == LocalImagePoint(ConcId(n), <<"a">>, 100, 100, 15)

\* answers clients send: on the target, off it, and with a coordinate that is no number
ConcAnswers ==
    {JPoint(100, 100), JPoint(0, 0), JDict([x |-> JText(<<"a">>), y |-> JInt(100)])}

IdleHandler == [pc |-> "idle"]

InitConc ==
    /\ now = 0
    /\ sessions = <<>>
    /\ last_cleanup = 0
    /\ remote = FALSE
    /\ last = [op |-> "init"]
    /\ hist = [s \in SIDs |-> NoHistory]
    /\ probe = [phase |-> "conc", calls |-> 0, made |-> 0, created |-> FALSE, won |-> {},
                h |-> [x \in Handlers |-> IdleHandler]]

ConcTick ==
    /\ \E t \in ConcTimes : t > now /\ now' = t
    /\ last' = [op |-> "tick"]
    /\ UNCHANGED <<sessions, last_cleanup, remote, hist, probe>>

\* POST /session, once
ConcCreate ==
    /\ ~probe.created
    /\ \E c \in {StoreCreate(sessions, last_cleanup, ConcSID, now)} :
          /\ sessions' = c.tab
          /\ last_cleanup' = c.lc
    /\ probe' = [probe EXCEPT !.created = TRUE]
    /\ last' = [op |-> "create", sid |-> ConcSID]
    /\ UNCHANGED <<now, remote, hist>>

\* a request arrives and a handler thread starts on it
ConcCall(x) ==
    /\ probe.h[x].pc = "idle"
    /\ probe.calls < MaxCalls
    /\ \/ /\ probe.made + Cardinality({y \in Handlers : probe.h[y].pc \in {"iss_get", "iss_make"}}) < MaxGen
          /\ probe' = [probe EXCEPT !.calls = @ + 1, !.h[x] = [pc |-> "iss_get"]]
          /\ last' = [op |-> "call", h |-> x, route |-> "issue"]
       \/ \E answer \in ConcAnswers :
             /\ probe' = [probe EXCEPT !.calls = @ + 1,
                                       !.h[x] = [pc |-> "sub_get", answer |-> answer]]
             /\ last' = [op |-> "call", h |-> x, route |-> "submit"]
    /\ UNCHANGED <<now, sessions, last_cleanup, remote, hist>>

\* the handler returns (or raises) and its thread is free again
Return(x, op, ret) ==
    /\ probe' = [probe EXCEPT !.h[x] = IdleHandler]
    /\ last' = [op |-> op, h |-> x, ret |-> ret]

\* GeneratorAgent.run: session_store.get and the check of its result
IssueGet(x) ==
    /\ probe.h[x].pc = "iss_get"
    /\ \E g \in {StoreGet(sessions, ConcSID, now)} :
          /\ sessions' = g.tab
          /\ IF ~g.found
             THEN Return(x, "issue_return", [error |-> "invalid-session"])
             ELSE /\ probe' = [probe EXCEPT !.h[x].pc = "iss_make"]
                  /\ last' = [op |-> "issue_get", h |-> x]
    /\ UNCHANGED <<now, last_cleanup, remote, hist>>

\* the challenge is made, rendered and signed, and the arguments of the update are
\* evaluated: generation_count is read from the table's entry
IssueMake(x) ==
    /\ probe.h[x].pc = "iss_make"
    /\ \E challenge_to_store \in {ChallengeToStore(ConcChallenge(probe.made + 1), TRUE, now)} :
          \E signature \in {sign_payload(<<ConcSID>>, JsonDumps(challenge_to_store), now)} :
             probe' = [probe EXCEPT
                          !.made = @ + 1,
                          !.h[x] = [pc |-> "iss_store",
                                    data |-> IssueUpdate(challenge_to_store, signature, now,
                                                         sessions[ConcSID].generation_count)]]
    /\ last' = [op |-> "issue_make", h |-> x]
    /\ UNCHANGED <<now, sessions, last_cleanup, remote, hist>>

\* session_store.update with the new challenge, and the return
IssueStore(x) ==
    /\ probe.h[x].pc = "iss_store"
    /\ \E u \in {StoreUpdate(sessions, last_cleanup, ConcSID, probe.h[x].data, now)} :
          /\ sessions' = u.tab
          /\ last_cleanup' = u.lc
    /\ hist' = [hist EXCEPT ![ConcSID] = [bad |-> 0, at |-> 0, solved |-> FALSE,
                                           prev |-> probe.h[x].data.captcha]]
    /\ Return(x, "issue_return",
              PublicView(probe.h[x].data.captcha.challenge, probe.h[x].data.captcha.signature))
    /\ UNCHANGED <<now, remote>>

\* ValidatorAgent.run: session_store.get and the check "not session.get('captcha')"
SubmitGet(x) ==
    /\ probe.h[x].pc = "sub_get"
    /\ \E g \in {StoreGet(sessions, ConcSID, now)} :
          /\ sessions' = g.tab
          /\ IF ~g.found \/ g.s.captcha = None
             THEN Return(x, "submit_return", NoActiveCaptcha)
             ELSE /\ probe' = [probe EXCEPT !.h[x].pc = "sub_read"]
                  /\ last' = [op |-> "submit_get", h |-> x]
    /\ UNCHANGED <<now, last_cleanup, remote, hist>>

\* stored = session["captcha"] is read again from the table's entry; stored.get
\* raises when it has become None; then the signature check
SubmitRead(x) ==
    /\ probe.h[x].pc = "sub_read"
    /\ \E stored \in {sessions[ConcSID].captcha} :
          IF stored = None
          THEN Return(x, "submit_raise", [raised |-> "AttributeError"])
          ELSE IF ~verify_signature(<<ConcSID>>, JsonDumps(stored.challenge), stored.signature, now)
               THEN Return(x, "submit_return", SignatureInvalid)
               ELSE /\ probe' = [probe EXCEPT !.h[x] = [pc |-> "sub_now", answer |-> @.answer,
                                                         challenge |-> stored.challenge]]
                    /\ last' = [op |-> "submit_read", h |-> x]
    /\ UNCHANGED <<now, sessions, last_cleanup, remote, hist>>

\* now = time.time(); attempts = session.get("attempts", 0)
SubmitNow(x) ==
    /\ probe.h[x].pc = "sub_now"
    /\ probe' = [probe EXCEPT !.h[x] = [pc |-> "sub_limit", answer |-> @.answer,
                                        challenge |-> @.challenge, now |-> now,
                                        attempts |-> sessions[ConcSID].attempts]]
    /\ last' = [op |-> "submit_now", h |-> x]
    /\ UNCHANGED <<now, sessions, last_cleanup, remote, hist>>

\* last = session.get("last_attempt", 0), the rate limit, and verify_with_ai
SubmitLimit(x) ==
    /\ probe.h[x].pc = "sub_limit"
    /\ IF RateLimited(probe.h[x].attempts, sessions[ConcSID].last_attempt, probe.h[x].now)
       THEN Return(x, "submit_return", TooManyAttempts)
       ELSE /\ probe' = [probe EXCEPT !.h[x] =
                           [pc |-> "sub_count", challenge |-> @.challenge, now |-> @.now,
                            attempts |-> @.attempts,
                            verify_result |-> verify_with_ai(remote, NoReply, @.challenge, @.answer)]]
            /\ last' = [op |-> "submit_judge", h |-> x]
    /\ UNCHANGED <<now, sessions, last_cleanup, remote, hist>>

\* session_store.update with attempts + 1 and last_attempt
SubmitCount(x) ==
    /\ probe.h[x].pc = "sub_count"
    /\ \E u \in {StoreUpdate(sessions, last_cleanup, ConcSID,
                             AttemptUpdate(probe.h[x].attempts, probe.h[x].now), now)} :
          /\ sessions' = u.tab
          /\ last_cleanup' = u.lc
    /\ probe' = [probe EXCEPT !.h[x].pc = "sub_finish"]
    /\ last' = [op |-> "submit_count", h |-> x]
    /\ UNCHANGED <<now, remote, hist>>

\* the verdict is interpreted: a correct one clears the challenge
SubmitFinish(x) ==
    /\ probe.h[x].pc = "sub_finish"
    /\ \E verify_result \in {probe.h[x].verify_result} :
          \E current \in {hist[ConcSID].prev # None
                            /\ hist[ConcSID].prev.challenge.captcha_id
                                  = probe.h[x].challenge.captcha_id} :
          IF ~verify_result.ok
          THEN /\ Return(x, "submit_return",
                         [success |-> FALSE, error |-> "verification_unavailable",
                          meta |-> verify_result.explanation])
               /\ hist' = IF current
                          THEN [hist EXCEPT ![ConcSID].bad = @ + 1, ![ConcSID].at = probe.h[x].now]
                          ELSE hist
               /\ UNCHANGED <<sessions, last_cleanup>>
          ELSE IF verify_result.correct
          THEN /\ \E u \in {StoreUpdate(sessions, last_cleanup, ConcSID, ClearUpdate, now)} :
                     /\ sessions' = u.tab
                     /\ last_cleanup' = u.lc
               /\ probe' = [probe EXCEPT !.h[x] = IdleHandler,
                                         !.won = @ \cup {probe.h[x].challenge.captcha_id}]
               /\ last' = [op |-> "submit_return", h |-> x,
                           ret |-> [success |-> TRUE, message |-> "Captcha correct",
                                    explanation |-> verify_result.explanation,
                                    normalized |-> Normalized(verify_result)]]
               /\ hist' = IF current
                          THEN [hist EXCEPT ![ConcSID].bad = 0, ![ConcSID].at = probe.h[x].now,
                                            ![ConcSID].solved = TRUE]
                          ELSE hist
          ELSE /\ Return(x, "submit_return",
                         [success |-> FALSE, message |-> "Incorrect captcha",
                          explanation |-> verify_result.explanation,
                          normalized |-> Normalized(verify_result)])
               /\ hist' = IF current
                          THEN [hist EXCEPT ![ConcSID].bad = @ + 1, ![ConcSID].at = probe.h[x].now]
                          ELSE hist
               /\ UNCHANGED <<sessions, last_cleanup>>
    /\ UNCHANGED <<now, remote>>

NextConc ==
    \/ ConcTick
    \/ ConcCreate
    \/ \E x \in Handlers : ConcCall(x)
    \/ \E x \in Handlers : IssueGet(x)
    \/ \E x \in Handlers : IssueMake(x)
    \/ \E x \in Handlers : IssueStore(x)
    \/ \E x \in Handlers : SubmitGet(x)
    \/ \E x \in Handlers : SubmitRead(x)
    \/ \E x \in Handlers : SubmitNow(x)
    \/ \E x \in Handlers : SubmitLimit(x)
    \/ \E x \in Handlers : SubmitCount(x)
    \/ \E x \in Handlers : SubmitFinish(x)

SpecConc == InitConc /\ [][NextConc]_vars

(***************************************************************************)
(* Concurrent requests on a session that has used all but one of its       *)
(* attempts: the state after create, one issue and five wrong submits      *)
(* served one after the other at time 0, then the handler threads of       *)
(* SpecConc                                                                *)
(***************************************************************************)
\* the table after create and issue of the first challenge at time 0
IssuedTable ==
    GeneratorRun(StoreCreate(<<>>, 0, ConcSID, 0).tab, 0, ConcSID, 0, ConcChallenge(1), TRUE).tab

RECURSIVE AfterWrongSubmits(_, _)
\* the table after n submits of an answer off the target, served one after the other
AfterWrongSubmits(tab, n) ==
    IF n = 0 THEN tab
    ELSE AfterWrongSubmits(ValidatorRun(tab, 0, FALSE, ConcSID, JPoint(0, 0), 0, NoReply).tab, n - 1)

InitRate ==
    /\ now = 0
    /\ sessions = AfterWrongSubmits(IssuedTable, RATE_LIMIT_ATTEMPTS - 1)
    /\ last_cleanup = 0
    /\ remote = FALSE
    /\ last = [op |-> "init"]
    /\ hist = [s \in SIDs |-> [bad |-> RATE_LIMIT_ATTEMPTS - 1, at |-> 0, solved |-> FALSE,
                               prev |-> IssuedTable[ConcSID].captcha]]
    /\ probe = [phase |-> "conc", calls |-> 0, made |-> 1, created |-> TRUE, won |-> {},
                h |-> [x \in Handlers |-> IdleHandler]]

NextRate ==
    \/ ConcTick
    \/ \E x \in Handlers : ConcCall(x)
    \/ \E x \in Handlers : IssueGet(x)
    \/ \E x \in Handlers : IssueMake(x)
    \/ \E x \in Handlers : IssueStore(x)
    \/ \E x \in Handlers : SubmitGet(x)
    \/ \E x \in Handlers : SubmitRead(x)
    \/ \E x \in Handlers : SubmitNow(x)
    \/ \E x \in Handlers : SubmitLimit(x)
    \/ \E x \in Handlers : SubmitCount(x)
    \/ \E x \in Handlers : SubmitFinish(x)

SpecRate == InitRate /\ [][NextRate]_vars

(***************************************************************************)
(* One session with one challenge, submits served one after the other      *)
(* around the ends of the 60 s lockout                                     *)
(***************************************************************************)
LockTimes == {0, 1, 59, 60, 61, 119, 120, 121, 180}
MaxLockAttempts == 8
MaxRejected == 2

\* at: time of the last judged submit, rejected: submits rejected on the rate
\* limit since then
InitLock ==
    /\ now = 0
    /\ sessions = IssuedTable
    /\ last_cleanup = 0
    /\ remote = FALSE
    /\ last = [op |-> "init"]
    /\ hist = [s \in SIDs |-> [bad |-> 0, at |-> 0, solved |-> FALSE,
                               prev |-> IssuedTable[ConcSID].captcha]]
    /\ probe = [phase |-> "lock", at |-> 0, rejected |-> 0]

LockTick ==
    /\ \E t \in LockTimes : t > now /\ now' = t
    /\ last' = [op |-> "tick"]
    /\ UNCHANGED <<sessions, last_cleanup, remote, hist, probe>>

\* POST /captcha/<session_id>
LockSubmit ==
    \E answer \in ConcAnswers :
        \E r \in {ValidatorRun(sessions, last_cleanup, remote, ConcSID, answer, now, NoReply)} :
            /\ r.judged => sessions[ConcSID].attempts < MaxLockAttempts
            /\ r.ret = TooManyAttempts => probe.rejected < MaxRejected
            /\ sessions' = r.tab
            /\ last_cleanup' = r.lc
            /\ last' = [op |-> "submit", sid |-> ConcSID, answer |-> answer,
                        ret |-> r.ret, judged |-> r.judged, by_remote |-> r.by_remote,
                        prev_at |-> probe.at, rejected |-> probe.rejected]
            /\ probe' = IF r.judged THEN [probe EXCEPT !.at = now, !.rejected = 0]
                        ELSE IF r.ret = TooManyAttempts
                             THEN [probe EXCEPT !.rejected = @ + 1]
                             ELSE probe
            /\ hist' = IF ~r.judged THEN hist
                       ELSE IF r.ret.success
                            THEN [hist EXCEPT ![ConcSID] = [@ EXCEPT !.bad = 0, !.at = now,
                                                                      !.solved = TRUE]]
                            ELSE [hist EXCEPT ![ConcSID] = [@ EXCEPT !.bad = @ + 1,
                                                                      !.at = now]]
            /\ UNCHANGED <<now, remote>>

NextLock == LockTick \/ LockSubmit

SpecLock == InitLock /\ [][NextLock]_vars

(***************************************************************************)
(* Issue on whatever the remote model can answer: each captcha_type the    *)
(* prompt names, types it does not name, and ui_data that fit or do not    *)
(***************************************************************************)
RemoteTypes == {"text", "math", "pattern", "image", "audio", "color", "video", "Image", ""}

RemoteUis ==
    {[question |-> <<"?">>], [color_rgb |-> <<255, 0, 0>>], [color_rgb |-> <<255, 0>>],
     [shapes |-> <<"tri", "dot">>]}

IssueRemoteChallenges ==
    RemoteChallenges
    \cup {[captcha_id |-> "c1", captcha_type |-> ty, instructions |-> <<"Do it">>,
           ui_data |-> ui, solution |-> [value |-> Word1]] :
             ty \in RemoteTypes, ui \in RemoteUis}
    \cup {[captcha_id |-> "c1", captcha_type |-> ty, solution |-> [value |-> Word1]] :
             ty \in RemoteTypes}

IssueReplies == {NoReply} \cup {Reply(d) : d \in IssueRemoteChallenges}

\* GET /captcha/<session_id> served once: probe keeps what the oracle returned
IssueOnce ==
    /\ probe.phase = "idle"
    /\ \E sid \in DOMAIN sessions :
          /\ StoreGet(sessions, sid, now).found
          /\ \E reply \in (IF remote THEN IssueReplies ELSE {NoReply}),
                local \in LocalChallengesOf[FreshId], mediaOK \in BOOLEAN :
                \E challenge \in {decide_and_create_challenge(remote, reply, FreshId, local)} :
                   \E r \in {GeneratorRun(sessions, last_cleanup, sid, now, challenge, mediaOK)} :
                      /\ sessions' = r.tab
                      /\ last_cleanup' = r.lc
                      /\ last' = [op |-> "issue", sid |-> sid, ret |-> r.ret,
                                  generated |-> r.generated, render_ok |-> r.render_ok]
                      /\ hist' = [hist EXCEPT ![sid] = [bad |-> 0, at |-> 0, solved |-> FALSE,
                                                         prev |-> r.tab[sid].captcha]]
                      /\ probe' = [phase |-> "issued", sid |-> sid, oracle |-> challenge,
                                   mediaOK |-> mediaOK, ret |-> r.ret, at |-> now]
    /\ UNCHANGED <<now, remote>>

NextIssue == Tick \/ CreateSession \/ IssueOnce

SpecIssue == Init /\ [][NextIssue]_vars

(***************************************************************************)
(* The pattern branch of the local generator, draw by draw: the shuffle    *)
(* of the pool as far as the first places, which become the shapes, and    *)
(* the sample of indices.  The sample depends on the shapes through their  *)
(* number only, so the two draws are explored apart.                       *)
(***************************************************************************)
\* pool: the square is in it twice
PatternPool ==
    <<"tri", "dot", "dia", "sq", "star", "spark", "pent", "hex", "ring", "sq", "tri_open">>

\* count = rnd.randint(4, 7)
MinCount == 4
MaxCount == 7

\* seq_len = rnd.randint(3, min(6, count))
MinSample == 3
MaxSample == 6

Min(a, b) == IF a < b THEN a ELSE b

\* pool[:count] after the shuffle has put the places taken first
ShapesOf(taken) == [i \in 1..Len(taken) |-> PatternPool[taken[i]]]

Range(f) == {f[i] : i \in DOMAIN f}

\* rnd.shuffle(pool): the next place of the shuffled pool gets an element not yet placed
ShuffleDraw ==
    /\ probe.phase \in {"idle", "shuffle"}
    /\ \E taken \in {IF probe.phase = "idle" THEN <<>> ELSE probe.taken} :
          /\ Len(taken) < MaxCount
          /\ \E p \in DOMAIN PatternPool \ Range(taken) :
                probe' = [phase |-> "shuffle", taken |-> Append(taken, p)]
    /\ last' = [op |-> "shuffle"]
    /\ UNCHANGED <<now, sessions, last_cleanup, remote, hist>>

\* count is drawn; rnd.sample(list(range(count)), seq_len) begins
SampleStart ==
    /\ probe.phase = "idle"
    /\ \E count \in MinCount..MaxCount :
          probe' = [phase |-> "sample", count |-> count, seq |-> <<>>]
    /\ last' = [op |-> "count"]
    /\ UNCHANGED <<now, sessions, last_cleanup, remote, hist>>

\* rnd.sample: the next index is one not yet drawn
SampleDraw ==
    /\ probe.phase = "sample"
    /\ Len(probe.seq) < Min(MaxSample, probe.count)
    /\ \E i \in (0..(probe.count - 1)) \ Range(probe.seq) :
          probe' = [probe EXCEPT !.seq = Append(@, i)]
    /\ last' = [op |-> "sample"]
    /\ UNCHANGED <<now, sessions, last_cleanup, remote, hist>>

NextPattern == ShuffleDraw \/ SampleStart \/ SampleDraw

SpecPattern == InitSig /\ [][NextPattern]_vars

(***************************************************************************)
(* A local pattern challenge from its draws to the reply of issue: the     *)
(* shuffle and the sample together, for the counts up to MaxRenderCount    *)
(***************************************************************************)
MaxRenderCount == 4

\* rnd.shuffle(pool), place by place
RenderShuffle ==
    /\ probe.phase \in {"idle", "shuffle"}
    /\ \E taken \in {IF probe.phase = "idle" THEN <<>> ELSE probe.taken} :
          /\ Len(taken) < MaxRenderCount
          /\ \E p \in DOMAIN PatternPool \ Range(taken) :
                probe' = [phase |-> "shuffle", taken |-> Append(taken, p)]
    /\ last' = [op |-> "shuffle"]
    /\ UNCHANGED <<now, sessions, last_cleanup, remote, hist>>

\* count = rnd.randint(4, 7) is the number of places drawn so far: shapes = pool[:count]
RenderCount ==
    /\ probe.phase = "shuffle"
    /\ Len(probe.taken) \in MinCount..MaxCount
    /\ probe' = [phase |-> "sample", taken |-> probe.taken, seq |-> <<>>]
    /\ last' = [op |-> "count"]
    /\ UNCHANGED <<now, sessions, last_cleanup, remote, hist>>

\* rnd.sample(list(range(count)), seq_len): the next index is one not yet drawn
RenderSample ==
    /\ probe.phase = "sample"
    /\ Len(probe.seq) < Min(MaxSample, Len(probe.taken))
    /\ \E i \in (0..(Len(probe.taken) - 1)) \ Range(probe.seq) :
          probe' = [probe EXCEPT !.seq = Append(@, i)]
    /\ last' = [op |-> "sample"]
    /\ UNCHANGED <<now, sessions, last_cleanup, remote, hist>>

\* seq_len is the number of indices drawn; GeneratorAgent.run renders the challenge,
\* stores it and returns its public view
RenderIssue ==
    /\ probe.phase = "sample"
    /\ Len(probe.seq) \in MinSample..Min(MaxSample, Len(probe.taken))
    /\ \E stored \in {ChallengeToStore(LocalPattern("c1", ShapesOf(probe.taken), probe.seq),
                                         TRUE, now)} :
          probe' = [phase |-> "rendered", generated |-> ShapesOf(probe.taken),
                    stored |-> stored, ret |-> PublicView(stored, None)]
    /\ last' = [op |-> "issue"]
    /\ UNCHANGED <<now, sessions, last_cleanup, remote, hist>>

NextRender == RenderShuffle \/ RenderCount \/ RenderSample \/ RenderIssue

SpecRender == InitSig /\ [][NextRender]_vars

(***************************************************************************)
(* The math branch of the local generator, for every draw, and the local   *)
(* verifier on its challenges                                              *)
(***************************************************************************)
\* a = rnd.randint(2, 18); b = rnd.randint(1, 12); op = rnd.choice(["+", "-", "*"])
MathAs == 2..18
MathBs == 1..12
MathOps == {"+", "-", "*"}

\* answers a client sends to a challenge whose result is val
MathAnswers(val) ==
    {JStr(Digits(val)), JStr(<<" ">> \o Digits(val) \o <<" ">>), JNum(val), JNum(val + 1),
     JStr(Digits(val + 1)), JStr(<<"0">> \o Digits(val)), JStr(<<"+">> \o Digits(val)),
     JStr(<<"x">>), JStr(<<>>), JNull, JList(<<val>>)}

\* one challenge is generated locally with the draw a, op, b, stored by issue, and
\* one answer to it is judged with no remote configured
MathJudge ==
    /\ probe.phase = "idle"
    /\ \E a \in MathAs, b \in MathBs, op \in MathOps :
          \E challenge \in {ChallengeToStore(LocalMath("c1", a, op, b), TRUE, now)} :
             \E answer \in MathAnswers(MathVal(a, op, b)) :
                probe' = [phase |-> "math", a |-> a, b |-> b, operator |-> op,
                          challenge |-> challenge, answer |-> answer,
                          result |-> verify_with_ai(FALSE, NoReply, challenge, answer)]
    /\ last' = [op |-> "math"]
    /\ UNCHANGED <<now, sessions, last_cleanup, remote, hist>>

NextMath == MathJudge

SpecMath == InitSig /\ [][NextMath]_vars

(***************************************************************************)
(* Properties                                                              *)
(***************************************************************************)
\* the session s exists and its TTL has not elapsed
Live(s) == s \in DOMAIN sessions /\ now - sessions[s].created <= 3600

\* the live session s holds an active challenge
Active(s) == Live(s) /\ sessions[s].captcha # None

\* the signature stored with the challenge of s verifies now
StoredVerifies(s) ==
    verify_signature(<<s>>, JsonDumps(sessions[s].captcha.challenge),
                     sessions[s].captcha.signature, now)

\* this step serves a submit / an issue on s
SubmitStep(s) == last'.op = "submit" /\ last'.sid = s
IssueStep(s) == last'.op = "issue" /\ last'.sid = s

\* attempts, last_attempt and the active challenge of s are left as they were
SessionUntouched(s) ==
    /\ s \in DOMAIN sessions'
    /\ sessions'[s].attempts = sessions[s].attempts
    /\ sessions'[s].last_attempt = sessions[s].last_attempt
    /\ sessions'[s].captcha = sessions[s].captcha

\* C1 as stated: a signature verifies for its own payload at every verification
\* time less than 2 * WINDOW_SECONDS after signing.
C1_RoundTripTwoWindows ==
    (probe.phase = "verified" /\ probe.presented = probe.payload
        /\ probe.verified_at - probe.at < 2 * 300)
    => probe.result

\* C1 amended: a signature verifies for its own payload at signing time and at
\* every verification time at most WINDOW_SECONDS after signing.
C1_RoundTripOneWindow ==
    (probe.phase = "verified" /\ probe.presented = probe.payload
        /\ probe.verified_at - probe.at <= 300)
    => probe.result

\* a signature verified for its own payload 300 s after signing, in the next window
C1_Witness ==
    /\ probe.phase = "verified"
    /\ probe.presented = probe.payload
    /\ probe.verified_at = probe.at + 300
    /\ probe.result

\* C2: after 6 submits judged not correct against the active challenge of a
\* session, a submit less than 60 s after the 6th returns the rate-limited error,
\* asks the oracle nothing and leaves attempts, last_attempt and the challenge alone.
C2_SeventhRateLimited ==
    [][\A s \in SIDs :
        (SubmitStep(s) /\ Active(s) /\ hist[s].bad = 6 /\ now - hist[s].at < 60)
        => (last'.ret = TooManyAttempts /\ ~last'.judged /\ SessionUntouched(s))]_vars

\* C2 on a challenge whose stored signature still verifies (what the code keeps)
C2_SeventhRateLimitedWhileSigned ==
    [][\A s \in SIDs :
        (SubmitStep(s) /\ Active(s) /\ StoredVerifies(s)
            /\ hist[s].bad = 6 /\ now - hist[s].at < 60)
        => (last'.ret = TooManyAttempts /\ ~last'.judged /\ SessionUntouched(s))]_vars

\* C3: a submit judged correct leaves the session without active challenge and with
\* attempts 0, and every later submit before the next issue returns the
\* no-active-captcha error without asking the oracle.
C3_CorrectClears ==
    [][\A s \in SIDs :
        /\ (SubmitStep(s) /\ last'.ret.success)
           => (s \in DOMAIN sessions' /\ sessions'[s].captcha = None
                 /\ sessions'[s].attempts = 0)
        /\ (SubmitStep(s) /\ hist[s].solved)
           => (last'.ret = NoActiveCaptcha /\ ~last'.judged)]_vars

\* a submit refused on a session whose challenge had been solved
C3_Witness ==
    /\ last.op = "submit"
    /\ last.sid \in DOMAIN sessions
    /\ hist[last.sid].solved
    /\ last.ret = NoActiveCaptcha

\* the second of two issues on a session stores what it returns
SecondIssueStored(s) ==
    /\ sessions'[s].captcha.signature = last'.ret.signature
    /\ sessions'[s].captcha.challenge.captcha_id = last'.ret.captcha_id
    /\ sessions'[s].captcha.challenge.captcha_type = last'.ret.captcha_type
    /\ sessions'[s].captcha.challenge.ui_data = last'.ret.ui_data
    /\ sessions'[s].captcha.created = now

\* the signature of the issue before is neither the stored one nor valid for
\* the stored challenge
FirstSignatureDead(s) ==
    /\ hist[s].prev.signature # sessions'[s].captcha.signature
    /\ ~verify_signature(<<s>>, JsonDumps(sessions'[s].captcha.challenge),
                         hist[s].prev.signature, now)

Solves(challenge, answer) ==
    \/ answer.kind = "str" /\ "value" \in DOMAIN challenge.solution
         /\ answer.val = challenge.solution.value
    \/ answer.kind = "list" /\ "sequence" \in DOMAIN challenge.solution
         /\ answer.val = challenge.solution.sequence

\* C5: while the session is live, no submit on the stored challenge returns the
\* signature-invalid error, and a submit of the correct answer, judged locally,
\* succeeds unless it is rate-limited.
C5_RetryableUntilTTL ==
    [][\A s \in SIDs :
        (SubmitStep(s) /\ Active(s))
        => /\ last'.ret # SignatureInvalid
           /\ (~remote /\ Solves(sessions[s].captcha.challenge, last'.answer))
              => (last'.ret.success \/ last'.ret = TooManyAttempts)]_vars

\* C6: a signature never verifies for a payload other than the signed one,
\* whatever the verification time.
C6_TamperDetected ==
    (probe.phase = "verified" /\ probe.presented # probe.payload) => ~probe.result

\* a tampered payload presented in the signing window itself and rejected
C6_Witness ==
    /\ probe.phase = "verified"
    /\ probe.presented # probe.payload
    /\ WindowOf(probe.verified_at) = WindowOf(probe.at)
    /\ ~probe.result

\* C7: a submit that finds the stored signature not verifying returns the
\* signature-invalid error, asks the oracle nothing and leaves attempts,
\* last_attempt and the challenge alone.
C7_SignatureInvalidStops ==
    [][\A s \in SIDs :
        (SubmitStep(s) /\ Active(s) /\ ~StoredVerifies(s))
        => (last'.ret = SignatureInvalid /\ ~last'.judged /\ SessionUntouched(s))]_vars

\* a submit has been refused for the signature, the challenge being still stored
C7_Witness ==
    /\ last.op = "submit"
    /\ last.ret = SignatureInvalid
    /\ sessions[last.sid].captcha # None
    /\ sessions[last.sid].attempts > 0

\* what issue and submit return for an id that was never created
NeverCreatedIssue == GeneratorRun(<<>>, 0, "zz", now, None, TRUE).ret
NeverCreatedSubmit == ValidatorRun(<<>>, 0, remote, "zz", JNull, now, NoReply).ret

\* C8: an issue or submit on a session older than 3600 s removes the entry, returns
\* what it returns for an id never created, asks the oracle nothing and stores nothing.
C8_ExpiredIsUnknown ==
    [][\A s \in SIDs :
        (s \in DOMAIN sessions /\ now - sessions[s].created > 3600
            /\ last'.op \in {"issue", "submit"} /\ last'.sid = s)
        => /\ s \notin DOMAIN sessions'
           /\ last'.op = "issue" =>
                (last'.ret = NeverCreatedIssue /\ last'.ret = [error |-> "invalid-session"]
                    /\ ~last'.generated)
           /\ last'.op = "submit" =>
                (last'.ret = NeverCreatedSubmit /\ last'.ret = NoActiveCaptcha
                    /\ ~last'.judged)]_vars

\* a request on a session that had a challenge and has expired was answered as
\* for an unknown id
C8_Witness ==
    /\ last.op = "submit"
    /\ last.sid \in SIDs
    /\ last.sid \notin DOMAIN sessions
    /\ hist[last.sid].prev # None
    /\ last.ret = NoActiveCaptcha
    /\ now > 3600

\* the challenge is the fallback text challenge
IsFallback(challenge) ==
    /\ challenge.captcha_type = "text"
    /\ "metadata" \in DOMAIN challenge
    /\ "fallback" \in DOMAIN challenge.metadata
    /\ "value" \in DOMAIN challenge.solution
    /\ challenge.metadata.fallback = TRUE
    /\ challenge.instructions = <<"Type the word '">> \o challenge.solution.value \o <<"'">>

\* C9: when the try block of issue raises, a fallback text challenge is stored and
\* returned; a submit of its word in any letter case, judged locally while the
\* session is live, the signature verifies and the rate limit is not reached, succeeds.
C9_FallbackSolvable ==
    [][\A s \in SIDs :
        /\ (IssueStep(s) /\ last'.generated /\ ~last'.render_ok)
           => (IsFallback(sessions'[s].captcha.challenge) /\ last'.ret.captcha_type = "text"
                 /\ last'.ret.instructions = sessions'[s].captcha.challenge.instructions)
        /\ (SubmitStep(s) /\ Active(s) /\ IsFallback(sessions[s].captcha.challenge)
              /\ StoredVerifies(s) /\ hist[s].bad < 6 /\ ~remote
              /\ last'.answer.kind = "str"
              /\ Lower(last'.answer.val) = sessions[s].captcha.challenge.solution.value)
           => (last'.ret.success /\ sessions'[s].captcha = None)]_vars

\* the upper-case form of a fallback word has been submitted and accepted
C9_Witness ==
    /\ last.op = "submit"
    /\ last.ret.success
    /\ last.answer.kind = "str"
    /\ last.answer.val # Lower(last.answer.val)
    /\ \E t \in Times : Lower(last.answer.val) = FallbackWord(t)

StringFields == {"captcha_id", "captcha_type", "error", "message", "explanation", "meta"}

\* C10: what issue and submit return has only the public fields, and neither the
\* solution, nor the metadata, nor the HMAC secret is among their values.
C10_Redacted ==
    /\ (last.op = "issue" /\ last.generated) =>
          /\ DOMAIN last.ret = {"captcha_id", "captcha_type", "instructions", "ui_data",
                                "signature"}
          /\ DOMAIN last.ret.ui_data \cap {"solution", "metadata", "value", "sequence"} = {}
          /\ LET c == sessions[last.sid].captcha.challenge IN
               /\ last.ret.ui_data # c.solution
               /\ "metadata" \in DOMAIN c => last.ret.ui_data # c.metadata
    /\ (last.op = "issue" /\ ~last.generated) => DOMAIN last.ret = {"error"}
    /\ last.op = "submit" =>
          DOMAIN last.ret \in {{"success", "error"}, {"success", "error", "meta"},
                               {"success", "message", "explanation", "normalized"}}
    /\ last.op \in {"issue", "submit"} =>
          \A f \in DOMAIN last.ret \cap StringFields : last.ret[f] # "secret"

\* a challenge with a solution and metadata is stored and its view was returned
C10_Witness ==
    /\ last.op = "issue"
    /\ last.generated
    /\ "metadata" \in DOMAIN sessions[last.sid].captcha.challenge
    /\ "solution" \in DOMAIN sessions[last.sid].captcha.challenge

\* C12: an issue on an id that is not in the table, or whose session is older than
\* 3600 s, returns the invalid-session error, asks the oracle nothing, and creates
\* or modifies no session (the expired entry itself is dropped by get).
C12_IssueUnknownNoEffect ==
    [][(last'.op = "issue"
          /\ (last'.sid \notin DOMAIN sessions
                \/ now - sessions[last'.sid].created > 3600))
       => /\ last'.ret = [error |-> "invalid-session"]
          /\ ~last'.generated
          /\ \A k \in DOMAIN sessions' : k \in DOMAIN sessions /\ sessions'[k] = sessions[k]
          /\ DOMAIN sessions \ DOMAIN sessions' \subseteq {last'.sid}
          /\ last_cleanup' = last_cleanup]_vars

\* an issue on an unknown id was refused while another session held a challenge
C12_Witness ==
    /\ last.op = "issue"
    /\ last.sid \notin SIDs
    /\ last.ret = [error |-> "invalid-session"]
    /\ \E k \in DOMAIN sessions : sessions[k].captcha # None

\* C19: a signature made in window w = floor(t/300) verifies for its payload
\* exactly when the verification time lies in window w or w + 1.
C19_AcceptedInTwoWindows ==
    (probe.phase = "verified" /\ probe.presented = probe.payload)
    => (probe.result <=> (probe.verified_at \div 300) - (probe.at \div 300) \in {0, 1})

\* a signature refused for its own payload two windows after signing, 301 s later
C19_Witness ==
    /\ probe.phase = "verified"
    /\ probe.presented = probe.payload
    /\ probe.at = 299
    /\ probe.verified_at = 600
    /\ ~probe.result

KnownTypes == {"text", "math", "pattern", "image", "audio", "color"}

\* a key of the answer holds a string that is no number
BadCoordinate(answer) ==
    /\ answer.kind = "dict"
    /\ \E k \in DOMAIN answer.val :
         /\ "str" \in DOMAIN answer.val[k]
         /\ \/ answer.val[k].str = <<>>
            \/ \E i \in 1..Len(answer.val[k].str) :
                  answer.val[k].str[i] \notin {"0", "1", "2", "3", "4", "5", "6", "7", "8", "9"}

\* the local verifier meets an exception on the challenge and the answer
Exceptional(challenge, answer) ==
    /\ "captcha_type" \in DOMAIN challenge
    /\ challenge.captcha_type \in KnownTypes
    /\ "solution" \in DOMAIN challenge
    /\ \/ "kind" \in DOMAIN challenge.solution
       \/ /\ challenge.captcha_type = "image"
          /\ {"x", "y"} \subseteq DOMAIN challenge.solution
          /\ BadCoordinate(answer)

\* C15: the local verifier returns a record for every challenge and answer; for a
\* type outside the six known ones and on an internal exception the record has
\* ok = false and correct = false, and the submit returns the
\* verification-unavailable error and leaves the challenge stored.
C15_JudgeNeverRaises ==
    probe.phase = "judged" =>
        /\ {"ok", "correct", "explanation"} \subseteq DOMAIN probe.result
        /\ ("captcha_type" \notin DOMAIN probe.challenge
              \/ probe.challenge.captcha_type \notin KnownTypes
              \/ Exceptional(probe.challenge, probe.answer))
           => (~probe.result.ok /\ ~probe.result.correct)
        /\ (probe.stored /\ ~probe.result.ok)
           => /\ probe.submit.ret = [success |-> FALSE, error |-> "verification_unavailable",
                                      meta |-> probe.result.explanation]
              /\ probe.submit.captcha = StoredTable(probe.challenge)["s1"].captcha

\* a coordinate that is no number was submitted for a stored image challenge and
\* the submit was answered with the verification-unavailable error
C15_Witness ==
    /\ probe.phase = "judged"
    /\ probe.stored
    /\ probe.challenge.captcha_type = "image"
    /\ BadCoordinate(probe.answer)
    /\ probe.submit.ret.error = "verification_unavailable"

\* the answer is a list of integers or a comma-separated string of digit indices
IsIndexAnswer(answer) ==
    \/ answer.kind = "list"
    \/ /\ answer.kind = "str"
       /\ \A i \in 1..Len(SplitOn(answer.val, ",")) : IsDigitStr(SplitOn(answer.val, ",")[i])

\* the sequence of indices the answer gives
IndicesOf(answer) ==
    IF answer.kind = "list" THEN answer.val
    ELSE [i \in 1..Len(SplitOn(answer.val, ",")) |-> ParseInt(SplitOn(answer.val, ",")[i])]

PatternCase ==
    /\ probe.phase = "judged"
    /\ "captcha_type" \in DOMAIN probe.challenge
    /\ probe.challenge.captcha_type = "pattern"
    /\ "solution" \in DOMAIN probe.challenge
    /\ "sequence" \in DOMAIN probe.challenge.solution
    /\ IsIndexAnswer(probe.answer)

\* C16: the local verifier judges a pattern answer, a list of integers or a
\* comma-separated string of digit indices, correct iff it equals solution.sequence
\* element for element.
C16_PatternExact ==
    PatternCase =>
        (probe.result.correct <=> IndicesOf(probe.answer) = probe.challenge.solution.sequence)

\* C16 for sequences and answers of two indices or more, which is what the code keeps
C16_PatternExactFromTwo ==
    (PatternCase /\ Len(probe.challenge.solution.sequence) >= 2
        /\ Len(IndicesOf(probe.answer)) >= 2)
    => (probe.result.correct <=> IndicesOf(probe.answer) = probe.challenge.solution.sequence)

\* the answer is a mapping with integers x and y, or a pair of integers
IsPointAnswer(answer) ==
    \/ /\ answer.kind = "dict"
       /\ {"x", "y"} \subseteq DOMAIN answer.val
       /\ "int" \in DOMAIN answer.val.x /\ "int" \in DOMAIN answer.val.y
    \/ answer.kind = "list" /\ Len(answer.val) = 2

AnswerX(answer) == IF answer.kind = "dict" THEN answer.val.x.int ELSE answer.val[1]
AnswerY(answer) == IF answer.kind = "dict" THEN answer.val.y.int ELSE answer.val[2]

\* an image challenge with integers x, y and tolerance has been judged
PointCase ==
    /\ probe.phase = "judged"
    /\ "captcha_type" \in DOMAIN probe.challenge
    /\ probe.challenge.captcha_type = "image"
    /\ "solution" \in DOMAIN probe.challenge
    /\ {"x", "y", "tolerance"} \subseteq DOMAIN probe.challenge.solution

\* the square of the distance of the answer from the target
Distance2(sol, answer) ==
    (AnswerX(answer) - sol.x) * (AnswerX(answer) - sol.x)
    + (AnswerY(answer) - sol.y) * (AnswerY(answer) - sol.y)

\* neither a mapping nor a pair
NoPointAnswer(answer) ==
    answer.kind \in {"null", "str"} \/ (answer.kind = "list" /\ Len(answer.val) < 2)

\* C17 as stated: an answer {x, y} or pair is correct iff
\* (ux-x)^2 + (uy-y)^2 <= tolerance^2; an answer that is neither is ok, not correct.
C17_ImageToleranceSquares ==
    PointCase =>
        LET sol == probe.challenge.solution IN
        /\ IsPointAnswer(probe.answer)
           => /\ probe.result.ok
              /\ probe.result.correct
                 <=> Distance2(sol, probe.answer) <= sol.tolerance * sol.tolerance
        /\ NoPointAnswer(probe.answer) => (probe.result.ok /\ ~probe.result.correct)

\* C17 amended: ... correct iff tolerance >= 0 and
\* (ux-x)^2 + (uy-y)^2 <= tolerance^2, that is iff the distance is at most the
\* tolerance; an answer that is neither is ok, not correct.
C17_ImageToleranceDistance ==
    PointCase =>
        LET sol == probe.challenge.solution IN
        /\ IsPointAnswer(probe.answer)
           => /\ probe.result.ok
              /\ probe.result.correct
                 <=> (sol.tolerance >= 0
                        /\ Distance2(sol, probe.answer) <= sol.tolerance * sol.tolerance)
        /\ NoPointAnswer(probe.answer) => (probe.result.ok /\ ~probe.result.correct)

\* an answer at distance 15 exactly from the target of tolerance 15 was judged correct
C17_Witness ==
    /\ PointCase
    /\ probe.challenge.solution.tolerance = 15
    /\ IsPointAnswer(probe.answer)
    /\ Distance2(probe.challenge.solution, probe.answer) = 225
    /\ probe.result.correct

\* the text of the reply holds no single JSON object
Unparseable(text) == Cardinality({i \in 1..Len(text) : "o" \in DOMAIN text[i]}) # 1

\* the remote call of the operation was not made or did not give an object
RemoteFailed ==
    \/ ~remote
    \/ "outcome" \in DOMAIN probe /\ probe.outcome.raised
    \/ "outcome" \in DOMAIN probe /\ ~probe.outcome.raised /\ Unparseable(probe.outcome.text)

\* C14: generateChallenge and judgeAnswer make at most one remote call per
\* invocation, none when unconfigured; when the remote is unconfigured, raises,
\* times out or returns unparseable text they return the local generator's /
\* verifier's result.
C14_OneCallThenLocal ==
    probe.phase \in {"entered", "failed", "returned"} =>
        /\ probe.calls <= 1
        /\ ~remote => probe.calls = 0
        /\ (probe.phase = "returned" /\ RemoteFailed) => probe.result = probe.local
        /\ (probe.phase = "returned" /\ ~RemoteFailed) => probe.calls = 1

\* an operation returned the local result after the one remote call gave
\* unparseable text
C14_Witness ==
    /\ probe.phase = "returned"
    /\ probe.calls = 1
    /\ ~probe.outcome.raised
    /\ Unparseable(probe.outcome.text)
    /\ probe.outcome.text # <<>>
    /\ probe.result = probe.local

\* C18: no session exists and no request has been served while
\* CAPTCHA_HMAC_SECRET is absent or empty: the process exits on loading security.py.
C18_NoServiceWithoutSecret ==
    /\ (~probe.env.set \/ probe.env.val = "") =>
          (probe.phase \in {"boot", "exited"} /\ sessions = <<>> /\ last.op = "init")
    /\ (sessions # <<>> \/ last.op # "init") => probe.phase = "serving"

\* the process has exited on an empty secret
C18_Witness ==
    /\ probe.phase = "exited"
    /\ probe.env.set
    /\ probe.env.val = ""

\* the threads inside the body of a store operation
InTable == {t \in Threads : probe.th[t].pc \in {"in", "out"}}

\* C13: at no time are two store operations inside the table at once, the
\* thread inside holds the lock, and every step that reads or writes the
\* table or sweeps it is taken by the thread holding the lock
C13_StoreMutualExclusion ==
    /\ [](probe.phase = "store" =>
             /\ Cardinality(InTable) <= 1
             /\ \A t \in InTable : probe.lock = t)
    /\ [][(probe.phase = "store" /\ (last'.op = "body" \/ sessions' # sessions \/ last_cleanup' # last_cleanup)) =>
             /\ last'.op = "body"
             /\ probe.lock = last'.thread
             /\ probe.th[last'.thread].pc = "in"
             /\ \A u \in Threads \ {last'.thread} : probe.th[u].pc \notin {"in", "out"}]_vars

\* an operation has swept the table under the lock while the other thread waits for it
C13_Witness ==
    /\ probe.phase = "store"
    /\ last.op = "body" /\ last.sweep
    /\ last_cleanup = now /\ now > 0
    /\ probe.lock = last.thread
    /\ \E u \in Threads \ {last.thread} : probe.th[u].pc = "wait"

\* C11: in every reachable state, interleavings of concurrent issue and submit
\* calls included, a live session holds a non-null challenge with a signature
\* iff an issue has completed for it and no submit judged correct against the
\* most recently issued challenge has completed since
C11_ActiveIffIssuedUnsolved ==
    Live(ConcSID) =>
        ((sessions[ConcSID].captcha # None /\ "signature" \in DOMAIN sessions[ConcSID].captcha)
            <=> (hist[ConcSID].prev # None /\ ~hist[ConcSID].solved))

\* the steps of a submit up to its rate-limit check, and its early returns
RejectedReturn ==
    /\ last'.op \in {"submit_return", "submit_raise"}
    /\ "pc" \in DOMAIN probe.h[last'.h]
    /\ probe.h[last'.h].pc \in {"sub_get", "sub_read", "sub_limit"}

\* C20: a submit that has passed the signature and rate-limit checks writes
\* attempts = the value it read + 1 and last_attempt = its now in a step of its
\* own, before the verdict is interpreted and whatever the verdict is; the steps
\* of a submit up to the checks, and its rejections, write nothing
C20_AttemptAccounting ==
    [][/\ (probe.phase = "conc" /\ last'.op = "submit_count") =>
             /\ probe.h[last'.h].pc = "sub_count"
             /\ sessions'[ConcSID].attempts = probe.h[last'.h].attempts + 1
             /\ sessions'[ConcSID].last_attempt = probe.h[last'.h].now
             /\ sessions'[ConcSID].captcha = sessions[ConcSID].captcha
       /\ (probe.phase = "conc" /\ last'.op = "submit_return"
             /\ probe.h[last'.h].pc = "sub_finish") =>
             /\ hist' # hist \/ hist' = hist
             /\ sessions'[ConcSID].last_attempt = sessions[ConcSID].last_attempt
             /\ sessions'[ConcSID].attempts
                   = IF probe.h[last'.h].verify_result.ok /\ probe.h[last'.h].verify_result.correct
                     THEN 0 ELSE sessions[ConcSID].attempts
       /\ (probe.phase = "conc"
             /\ (last'.op \in {"submit_get", "submit_read", "submit_now", "submit_judge"}
                   \/ RejectedReturn)) =>
             sessions' = sessions]_vars

\* a submit judged correct has counted its attempt and not yet cleared the challenge
C20_Witness ==
    /\ probe.phase = "conc"
    /\ last.op = "submit_count"
    /\ probe.h[last.h].verify_result.correct
    /\ sessions[ConcSID].attempts = probe.h[last.h].attempts + 1
    /\ sessions[ConcSID].last_attempt = probe.h[last.h].now
    /\ sessions[ConcSID].last_attempt > 0
    /\ sessions[ConcSID].captcha # None

\* no handler thread is inside a request
Quiescent == probe.phase = "conc" => \A x \in Handlers : probe.h[x].pc = "idle"

\* C21: in every reachable state in which every submit and issue begun has
\* completed, interleaved ones included, attempts of a live session with an
\* active challenge equals the number of oracle-judged submits completed against
\* that challenge since it was issued
C21_AttemptsCountJudged ==
    (Quiescent /\ Active(ConcSID)) => sessions[ConcSID].attempts = hist[ConcSID].bad

\* C22: after an issue that found its session, the session holds the returned
\* challenge with the returned signature and created = now, attempts = 0,
\* last_attempt = 0 and generation_count one more than before, and the stored
\* signature verifies against the stored challenge at that time
C22_IssuePersistsFresh ==
    [][\A s \in SIDs :
          (IssueStep(s) /\ last'.generated) =>
             /\ s \in DOMAIN sessions'
             /\ sessions'[s].captcha # None
             /\ PublicView(sessions'[s].captcha.challenge, sessions'[s].captcha.signature)
                   = last'.ret
             /\ sessions'[s].captcha.created = now'
             /\ sessions'[s].attempts = 0
             /\ sessions'[s].last_attempt = 0
             /\ sessions'[s].generation_count = sessions[s].generation_count + 1
             /\ sessions'[s].created = sessions[s].created
             /\ verify_signature(<<s>>, JsonDumps(sessions'[s].captcha.challenge),
                                 last'.ret.signature, now')]_vars

\* a second challenge has been issued on a session and stored
C22_Witness ==
    /\ last.op = "issue" /\ last.generated
    /\ hist[last.sid].prev = sessions[last.sid].captcha
    /\ sessions[last.sid].generation_count = 2
    /\ sessions[last.sid].attempts = 0
    /\ now > 0

\* C23: through any interleaving of issue calls on a session, generation_count
\* never decreases, and the step that completes an issue increases it by exactly 1
C23_GenerationCountMonotonic ==
    [][(probe.phase = "conc" /\ ConcSID \in DOMAIN sessions) =>
          /\ ConcSID \in DOMAIN sessions'
          /\ sessions'[ConcSID].generation_count >= sessions[ConcSID].generation_count
          /\ (last'.op = "issue_return" /\ probe.h[last'.h].pc = "iss_store") =>
                sessions'[ConcSID].generation_count = sessions[ConcSID].generation_count + 1]_vars

\* the challenge stored for the session the one issue was served on
IssuedChallenge == sessions[probe.sid].captcha.challenge

\* C24: whatever type, missing type or color_rgb the oracle returned, the
\* challenge that issue persists and returns has one of the six types, and an
\* oracle challenge of any other type is replaced by the fallback text challenge
C24_StoredTypeRenderable ==
    probe.phase = "issued" =>
        /\ IssuedChallenge.captcha_type \in KnownTypes
        /\ probe.ret.captcha_type = IssuedChallenge.captcha_type
        /\ probe.ret.ui_data = IssuedChallenge.ui_data
        /\ probe.oracle.captcha_type \notin KnownTypes =>
              /\ IssuedChallenge.captcha_type = "text"
              /\ "metadata" \in DOMAIN IssuedChallenge
              /\ "fallback" \in DOMAIN IssuedChallenge.metadata
              /\ IssuedChallenge.metadata.render_error = "Unsupported captcha_type"
              /\ IssuedChallenge.solution = [value |-> FallbackWord(probe.at)]

\* the oracle returned a type that is none of the six and the fallback was stored
C24_Witness ==
    /\ probe.phase = "issued"
    /\ probe.oracle.captcha_type = "video"
    /\ IssuedChallenge.captcha_type = "text"
    /\ IssuedChallenge.metadata.render_error = "Unsupported captcha_type"

\* this step of the store ran the sweep of _cleanup
SweepStep == probe.phase = "store" /\ last_cleanup' # last_cleanup

\* C25: a sweep runs only when more than 300 s have passed since the previous
\* sweep or the construction of the store; right after it no session older than
\* 3600 s is in the table and every session of age <= 3600 s is still there
C25_SweepInterval ==
    [][SweepStep =>
          /\ last'.op = "body" /\ last'.sweep
          /\ now - last_cleanup > CLEANUP_INTERVAL
          /\ last_cleanup' = now
          /\ \A k \in DOMAIN sessions' : now - sessions'[k].created <= SESSION_TTL
          /\ \A k \in DOMAIN sessions :
                now - sessions[k].created <= SESSION_TTL => k \in DOMAIN sessions']_vars

\* a sweep has removed an expired session and kept one whose age is exactly 3600 s
C25_Witness ==
    /\ probe.phase = "store"
    /\ last.op = "body" /\ last.sweep
    /\ last_cleanup = now
    /\ last.removed # {}
    /\ \E k \in DOMAIN sessions : now - sessions[k].created = SESSION_TTL

\* this step is the body of the store operation op, called as c
BodyOf(op) ==
    /\ probe.phase = "store"
    /\ last'.op = "body"
    /\ probe.th[last'.thread].call.op = op

CallOf == probe.th[last'.thread].call

\* C26: create returns an id that no session in the table has, inserts under it
\* a session with captcha = None, zero counters and created = now, and leaves
\* every session that is in the table and not expired as it was
C26_CreateFresh ==
    [][BodyOf("create") =>
          /\ CallOf.sid \notin DOMAIN sessions
          /\ CallOf.sid \in DOMAIN sessions'
          /\ sessions'[CallOf.sid] = [created |-> now, captcha |-> None, attempts |-> 0,
                                      last_attempt |-> 0, generation_count |-> 0]
          /\ \A k \in DOMAIN sessions :
                ~Expired(sessions[k], now) =>
                    k \in DOMAIN sessions' /\ sessions'[k] = sessions[k]]_vars

\* the same with the draw taken to differ from every id in the table
C26_CreateInsertsIfFresh ==
    [][(BodyOf("create") /\ CallOf.sid \notin DOMAIN sessions) =>
          /\ CallOf.sid \in DOMAIN sessions'
          /\ sessions'[CallOf.sid] = [created |-> now, captcha |-> None, attempts |-> 0,
                                      last_attempt |-> 0, generation_count |-> 0]
          /\ \A k \in DOMAIN sessions :
                ~Expired(sessions[k], now) =>
                    k \in DOMAIN sessions' /\ sessions'[k] = sessions[k]]_vars

\* the table after the sweep check on tab at the time of this step
AfterSweepCheck(tab) == Cleanup(tab, last_cleanup, now)

\* C27: update merges exactly the given fields into the session when the id is
\* in the table, leaves the table as it is when the id is absent, and in both
\* cases runs the sweep check
C27_UpdateMergesAndSweeps ==
    [][BodyOf("update") =>
          \E merged \in {IF CallOf.sid \in DOMAIN sessions
                         THEN [sessions EXCEPT ![CallOf.sid] =
                                  [f \in DOMAIN @ \cup DOMAIN CallOf.data |->
                                      IF f \in DOMAIN CallOf.data THEN CallOf.data[f] ELSE @[f]]]
                         ELSE sessions} :
             /\ sessions' = AfterSweepCheck(merged).tab
             /\ last_cleanup' = AfterSweepCheck(merged).lc]_vars

\* the same with the sweep check run only when the id is in the table
C27_UpdateMergesAndSweepsIfPresent ==
    [][BodyOf("update") =>
          IF CallOf.sid \in DOMAIN sessions
          THEN \E merged \in {[sessions EXCEPT ![CallOf.sid] =
                                  [f \in DOMAIN @ \cup DOMAIN CallOf.data |->
                                      IF f \in DOMAIN CallOf.data THEN CallOf.data[f] ELSE @[f]]]} :
                  /\ sessions' = AfterSweepCheck(merged).tab
                  /\ last_cleanup' = AfterSweepCheck(merged).lc
          ELSE sessions' = sessions /\ last_cleanup' = last_cleanup]_vars

\* no element occurs twice in the sequence
Distinct(q) == \A i, j \in DOMAIN q : i # j => q[i] # q[j]

\* the shapes of a locally generated pattern challenge: the first count places
DrawnShapes == LocalPattern("c1", ShapesOf(probe.taken), <<>>).ui_data.shapes

\* C28: a locally generated pattern challenge has between 4 and 7 shapes that
\* are pairwise distinct, and its solution.sequence has between 3 and 6
\* pairwise-distinct indices, each in 0..(number of shapes - 1)
C28_LocalPatternDistinct ==
    /\ (probe.phase = "shuffle" /\ Len(probe.taken) \in MinCount..MaxCount) =>
          /\ Len(DrawnShapes) \in 4..7
          /\ Distinct(DrawnShapes)
    /\ (probe.phase = "sample" /\ Len(probe.seq) \in MinSample..Min(MaxSample, probe.count)) =>
          /\ Len(probe.seq) \in 3..6
          /\ Distinct(probe.seq)
          /\ \A i \in DOMAIN probe.seq : probe.seq[i] \in 0..(probe.count - 1)

\* the part of it on the sequence of indices
C28_LocalPatternSequence ==
    (probe.phase = "sample" /\ Len(probe.seq) \in MinSample..Min(MaxSample, probe.count)) =>
        /\ Len(probe.seq) \in 3..6
        /\ Distinct(probe.seq)
        /\ \A i \in DOMAIN probe.seq : probe.seq[i] \in 0..(probe.count - 1)

\* the integer a decimal string denotes: digits with an optional leading minus
DecimalValue(s) ==
    IF s # <<>> /\ Head(s) = "-" THEN 0 - ParseInt(Tail(s)) ELSE ParseInt(s)

IsDecimal(s) ==
    IF s # <<>> /\ Head(s) = "-"
    THEN IsDigitStr(Tail(s)) /\ Head(Tail(s)) # "0"
    ELSE IsDigitStr(s) /\ (Len(s) > 1 => Head(s) # "0")

\* a op b, computed apart from the generator
Arith(a, op, b) == IF op = "+" THEN a + b ELSE IF op = "-" THEN a - b ELSE a * b

\* C29: for every a in 2..18, b in 1..12 and operator +, -, *, the generated
\* solution.value is the decimal string of a op b, which lies in -10..216, and
\* the local verifier judges an answer correct iff its trimmed, lower-cased
\* string equals that string
C29_LocalMath ==
    probe.phase = "math" =>
        LET value == probe.challenge.solution.value IN
        /\ probe.challenge.captcha_type = "math"
        /\ IsDecimal(value)
        /\ DecimalValue(value) = Arith(probe.a, probe.operator, probe.b)
        /\ DecimalValue(value) \in -10..216
        /\ probe.result.ok
        /\ probe.result.correct <=> Lower(Strip(PyStr(probe.answer))) = value

\* a negative result answered with blanks around it is judged correct
C29_Witness ==
    /\ probe.phase = "math"
    /\ probe.a = 2 /\ probe.b = 12 /\ probe.operator = "-"
    /\ probe.answer = JStr(<<" ", "-", "1", "0", " ">>)
    /\ probe.result.correct

\* the handlers whose submit has had its answer judged and has not returned yet
Judging == {x \in Handlers : probe.h[x].pc \in {"sub_count", "sub_finish"}}

\* the judged ones among them whose challenge is the one issued last
JudgingCurrent ==
    {x \in Judging : hist[ConcSID].prev # None
                       /\ probe.h[x].challenge.captcha_id = hist[ConcSID].prev.challenge.captcha_id}

\* oracle judge calls made against the challenge issued last
JudgeCalls == hist[ConcSID].bad + Cardinality(JudgingCurrent)

\* C30: in every interleaving of concurrent submits on one session and
\* challenge, none judged correct, at most 6 oracle judge calls are made
\* against the challenge before the end of the 60 s that follow the 6th; every
\* attempt of a behaviour is made at time 0 or later, so a state before time 60
\* lies within those 60 s
C30_RateLimitConcurrent ==
    (/\ probe.phase = "conc"
     /\ now < RATE_LIMIT_SECONDS
     /\ ~hist[ConcSID].solved
     /\ \A x \in Judging : ~probe.h[x].verify_result.correct)
        => JudgeCalls <= RATE_LIMIT_ATTEMPTS

\* this step is taken by a submit that has had its answer judged
JudgedSubmitStep ==
    /\ probe.phase = "conc"
    /\ last'.op \in {"submit_count", "submit_return"}
    /\ probe.h[last'.h].pc \in {"sub_count", "sub_finish"}

\* the challenge stored now is not the one the submit taking this step has judged
StoredIsNewer ==
    /\ sessions[ConcSID].captcha # None
    /\ sessions[ConcSID].captcha.challenge.captcha_id # probe.h[last'.h].challenge.captcha_id

\* C31: a submit clears the active challenge only if the challenge it judged
\* correct is the one stored; when an issue has stored a new challenge since
\* the submit read the old one, the submit leaves the new challenge and its
\* attempts as they are
C31_NoStaleClear ==
    [][JudgedSubmitStep =>
          /\ (sessions[ConcSID].captcha # None /\ sessions'[ConcSID].captcha = None) =>
                sessions[ConcSID].captcha.challenge.captcha_id
                    = probe.h[last'.h].challenge.captcha_id
          /\ StoredIsNewer =>
                /\ sessions'[ConcSID].captcha = sessions[ConcSID].captcha
                /\ sessions'[ConcSID].attempts = sessions[ConcSID].attempts]_vars

\* this step returns success to a submit
SuccessReturn ==
    /\ probe.phase = "conc"
    /\ last'.op = "submit_return"
    /\ probe.h[last'.h].pc = "sub_finish"
    /\ last'.ret.success

\* C32: for each issued challenge at most one submit returns success, in every
\* interleaving of concurrent submits with the correct answer on the session
C32_SingleUseSolve ==
    [][SuccessReturn => probe.h[last'.h].challenge.captcha_id \notin probe.won]_vars

\* C33: an issue on a session that is rate-limited (attempts >= 6, last attempt
\* under 60 s ago) resets attempts and last_attempt to 0, and the submit that
\* follows an issue at once is judged, never rejected as rate-limited: the
\* judge calls of a session within 60 s are not bounded by 6
C33_IssueLiftsRateLimit ==
    [][\A s \in SIDs :
          /\ (IssueStep(s) /\ last'.generated
                /\ RateLimited(sessions[s].attempts, sessions[s].last_attempt, now)) =>
                /\ sessions'[s].attempts = 0
                /\ sessions'[s].last_attempt = 0
                /\ ~RateLimited(sessions'[s].attempts, sessions'[s].last_attempt, now')
          /\ (last.op = "issue" /\ last.generated /\ last.sid = s /\ SubmitStep(s)) =>
                /\ last'.ret # TooManyAttempts
                /\ last'.judged]_vars

\* a session that had six judged attempts within the last 60 s has been issued
\* a new challenge and is no longer rate-limited
C33_Witness ==
    /\ last.op = "issue" /\ last.limited
    /\ sessions[last.sid].attempts = 0
    /\ sessions[last.sid].generation_count = 2
    /\ ~RateLimited(sessions[last.sid].attempts, sessions[last.sid].last_attempt, now)

\* C34: a submit rejected on the rate limit leaves attempts and last_attempt as
\* they were; with 6 or more attempts counted a submit is rejected exactly when
\* less than 60 s have passed since the last judged submit, however many were
\* rejected meanwhile; the submit judged after the lockout raises attempts by one
\* (7, 8, ...) without resetting it and locks the session for the next 60 s
C34_LockoutTiming ==
    [][(SubmitStep(ConcSID) /\ sessions[ConcSID].captcha # None) =>
          /\ last'.ret = TooManyAttempts =>
                /\ sessions'[ConcSID].attempts = sessions[ConcSID].attempts
                /\ sessions'[ConcSID].last_attempt = sessions[ConcSID].last_attempt
          /\ sessions[ConcSID].attempts >= RATE_LIMIT_ATTEMPTS =>
                /\ last'.ret = TooManyAttempts <=> now - probe.at < RATE_LIMIT_SECONDS
                /\ last'.judged <=> now - probe.at >= RATE_LIMIT_SECONDS
          /\ (sessions[ConcSID].attempts >= RATE_LIMIT_ATTEMPTS
                /\ last'.judged /\ ~last'.ret.success) =>
                /\ sessions'[ConcSID].attempts = sessions[ConcSID].attempts + 1
                /\ sessions'[ConcSID].last_attempt = now
                /\ \A t \in LockTimes :
                      (t >= now /\ t - now < RATE_LIMIT_SECONDS) =>
                          RateLimited(sessions'[ConcSID].attempts,
                                      sessions'[ConcSID].last_attempt, t)]_vars

\* the seventh judged submit, served exactly 60 s after the sixth and after
\* submits rejected in between
C34_Witness ==
    /\ last.op = "submit" /\ last.judged
    /\ sessions[ConcSID].attempts = RATE_LIMIT_ATTEMPTS + 1
    /\ last.rejected >= 1
    /\ now - last.prev_at = RATE_LIMIT_SECONDS

\* C35: after issue has rendered a locally generated pattern challenge, every
\* index of the stored solution.sequence is an index of the ui_data.shapes
\* returned to the client and names there the symbol it named in the
\* generator's shapes
C35_SolutionMatchesDisplayed ==
    probe.phase = "rendered" =>
        \A k \in DOMAIN probe.stored.solution.sequence :
            \E i \in {probe.stored.solution.sequence[k] + 1} :
                /\ i \in DOMAIN probe.ret.ui_data.shapes
                /\ probe.ret.ui_data.shapes[i] = probe.generated[i]

====
